---- MODULE Spec2Model ----
(***************************************************************************)
(* A model of the OS.js build layer: the object merger, the placeholder    *)
(* resolver, the configuration tree reader, package discovery and the      *)
(* settings builders.                                                      *)
(*                                                                         *)
(* JavaScript values are tagged records.  A mapping is a sequence of       *)
(* key/value pairs in insertion order (the order `for in`, Object.keys and *)
(* JSON.stringify walk it); keys are never integer-like, so insertion      *)
(* order is the enumeration order.  A string is a sequence of atoms: "%",  *)
(* a name chunk such as "UID" or "b", or a separator such as "/" or ".".   *)
(***************************************************************************)
EXTENDS Integers, Sequences, FiniteSets, TLC

VARIABLES
  \* mergeObject(into, from) and the object it returns
  into, from, merged,
  \* process.env
  env,
  \* resolveConfigurationVariables(tree): the results of a first and of a
  \* second pass, and the replacement each word of the first pass got
  tree, once, twice, replaced,
  \* the file system: the fragment files of src/conf and of each overlay's
  \* conf directory in glob order, and the overlays whose directory exists
  confFiles, confDirs,
  \* readConfigurationTree: the tree being assembled, the place the read has
  \* come to, the overlay directories still to read, the fragments merged
  \* and the fragments warned about so far, and the settled promise
  object, rpc, paths, mergeLog, warnings, cfg,
  \* the package directories: the metadata files under each search path, and
  \* the overlays that have a packages directory for the repository
  pkgFiles, pkgDirs,
  \* getRepositoryPackages: the search paths, the globs not yet answered, the
  \* metadata files listed so far, the outcome of reading each, the next
  \* outcome to handle, the mapping being filled, the place the discovery has
  \* come to and the settled promise
  searchPaths, pending, list, metas, nextMeta, result, ppc, settled,
  \* the builders: the tree as readConfigurationTree returned it, the
  \* --standalone option, what the theme and package discoveries answer, the
  \* locals of each builder, and the contents written to dist/settings.js
  \* and src/server/settings.json, one per run
  returned, standalone, themes, classNames, extensionConf,
  client, server, distSettings, settingsJson,
  \* getMetadata and buildServerManifest: the --repositories option, the
  \* filter the caller gives, the repositories searched, the discoveries not
  \* yet answered, the mapping being assigned, the settled promise and its
  \* value, the place the call has come to, and the text written to
  \* src/server/packages.json; the conf fragment files of the packages
  cliRepositories, filter, packageConf, repos, repoPending, metaList, metaSettled,
  metaResult, mpc, manifest,
  \* the theme directories: for each category its theme directories in glob
  \* order, each with what its file holds, and the categories whose glob
  \* fails
  themeFiles, globFails,
  \* the themes' getMetadata: the categories not yet answered, the result
  \* being filled, the settled promise and the place the call has come to
  themePending, themeResult, themeSettled, tpc,
  \* the output side of the file system: whether the client's template
  \* exists, whether each destination directory is missing, present or was
  \* created by a builder, and whether writing to the disk succeeds
  template, outDirs, writable,
  \* a task of the command line: its name, its options, the place it has come
  \* to and what it logged or was rejected with; the file system operations
  \* made outside readConfigurationTree, in order; and the calls of
  \* sjc.setJSON whose result was written to a configuration file; what the
  \* disk holds for the tasks: the file --import names, whether the
  \* destination of a generated package exists, the package templates and
  \* the number of files of a template
  task, io, custom, disk,
  \* buildPackages: the packages whose webpack run fails, the names still to
  \* build, the package being built, the webpack runs started so far, in
  \* order, and the place the batch has come to
  webpackFails, buildQueue, building, started, bpc,
  \* the bundler: the object minimist makes of the command line, the call of
  \* ygor.shell that execWebpack made, and the options parseOptions returns
  \* in the webpack process
  argv, shell, options,
  \* what getPackageMetadata was asked for and what it answered
  pkgMeta,
  \* build: the sub-tasks still to run, the one ygor.run is running, the
  \* ones started so far, in order, the ones that fail, and the place
  \* promise.each has come to
  tasks, running, ran, failing, seqpc

mergeVars == <<into, from, merged>>
resolveVars == <<tree, once, twice, replaced>>
fsVars == <<confFiles, confDirs>>
readerVars == <<object, rpc, paths, mergeLog, warnings>>
readVars == <<object, rpc, paths, mergeLog, warnings, cfg>>
pkgFsVars == <<pkgFiles, pkgDirs>>
pkgVars == <<searchPaths, pending, list, metas, nextMeta, result, ppc, settled>>
buildInputs == <<returned, standalone, themes, classNames, extensionConf>>
buildVars == <<client, server, distSettings, settingsJson>>
metaInputs == <<cliRepositories, filter, packageConf>>
metaVars == <<repos, repoPending, metaList, metaSettled, metaResult, mpc,
              manifest>>
\* The variables of the operations modelled after the builders.
themeInputs == <<themeFiles, globFails>>
themeVars == <<themePending, themeResult, themeSettled, tpc>>
outVars == <<template, outDirs, writable>>
taskVars == <<task, io, custom, disk>>
batchVars == <<webpackFails, buildQueue, building, started, bpc>>
webpackVars == <<argv, shell, options>>
\* The variables of the operations modelled after the tasks.
seqVars == <<tasks, running, ran, failing, seqpc>>
moreVars == <<pkgMeta, seqVars>>
extraVars == <<webpackVars, moreVars>>
runVars == <<taskVars, batchVars, extraVars>>
\* The variables of the operations modelled after the builders, and those
\* of them that getMetadata and that the themes' getMetadata leave alone.
laterVars == <<metaInputs, metaVars, themeInputs, themeVars, outVars, runVars>>
notMeta == <<themeInputs, themeVars, outVars, runVars>>
notThemes == <<outVars, runVars>>
vars == <<into, from, merged, env, tree, once, twice, replaced,
          confFiles, confDirs, object, rpc, paths, mergeLog, warnings, cfg,
          pkgFiles, pkgDirs, searchPaths, pending, list, metas, nextMeta,
          result, ppc, settled,
          returned, standalone, themes, classNames, extensionConf,
          client, server, distSettings, settingsJson,
          cliRepositories, filter, packageConf, repos, repoPending, metaList, metaSettled,
          metaResult, mpc, manifest,
          themeFiles, globFails, themePending, themeResult, themeSettled, tpc,
          template, outDirs, writable,
          task, io, custom, disk, webpackFails, buildQueue, building, started, bpc,
          argv, shell, options,
          pkgMeta, tasks, running, ran, failing, seqpc>>

----------------------------------------------------------------------------
(* JavaScript values *)

Undefined == [t |-> "undefined"]
Null == [t |-> "null"]
Num(n) == [t |-> "number", n |-> n]
Bool(b) == [t |-> "boolean", b |-> b]
Str(s) == [t |-> "string", s |-> s]
\* An array keeps, besides its items, the named properties assigned to it.
Arr(items, props) == [t |-> "array", items |-> items, props |-> props]
Obj(pairs) == [t |-> "object", pairs |-> pairs]
Pair(k, v) == [k |-> k, v |-> v]

\* Marks a value no operation has produced yet.
None == [t |-> "none"]

\* The one element of a singleton.  TheOne({e(x) : x \in {v}}) is e(v), with
\* v evaluated once.
TheOne(S) == CHOOSE x \in S : TRUE

IsNullish(v) == v.t \in {"undefined", "null"}
IsPrimitive(v) == v.t \in {"number", "boolean", "string"}

KeysOf(pairs) == {pairs[i].k : i \in 1..Len(pairs)}

IndexOfKey(pairs, k) ==
  IF k \in KeysOf(pairs)
    THEN CHOOSE i \in 1..Len(pairs) : pairs[i].k = k
    ELSE 0

\* pairs[k] = v on a mapping: in place when the key exists, appended otherwise.
PutPair(pairs, k, v) ==
  LET i == IndexOfKey(pairs, k)
  IN  IF i = 0 THEN Append(pairs, Pair(k, v))
      ELSE [pairs EXCEPT ![i] = Pair(k, v)]

\* obj[p] read.  Reading a property of undefined or null throws; the callers
\* test for that first.  A primitive has none of the keys used here.
GetProp(obj, p) ==
  CASE obj.t = "object" ->
         IF p \in KeysOf(obj.pairs)
           THEN obj.pairs[IndexOfKey(obj.pairs, p)].v ELSE Undefined
    [] obj.t = "array" ->
         IF p \in KeysOf(obj.props)
           THEN obj.props[IndexOfKey(obj.props, p)].v ELSE Undefined
    [] OTHER -> Undefined

\* The outcome of a statement: the object it worked on, or an exception.
Done(v) == [threw |-> FALSE, val |-> v]
Thrown == [threw |-> TRUE, val |-> Undefined]

\* obj[p] = v.  The module is not in strict mode: on a number, boolean or
\* string the assignment is silently dropped; on undefined or null it throws.
SetProp(obj, p, v) ==
  CASE obj.t = "object" -> Done(Obj(PutPair(obj.pairs, p, v)))
    [] obj.t = "array" -> Done(Arr(obj.items, PutPair(obj.props, p, v)))
    [] IsNullish(obj) -> Thrown
    [] OTHER -> Done(obj)

----------------------------------------------------------------------------
(* utils.js: mergeObject *)

RECURSIVE mergeJSON(_, _)
RECURSIVE mergeFrom(_, _, _)

\* A merger in which the first writer of a key wins; the claims about the
\* order of merging have to tell it from mergeKey.
mergeKeyKeepFirst(obj1, p, v2) ==
  IF obj1.t = "object" /\ p \in KeysOf(obj1.pairs)
    THEN Done(obj1)
    ELSE SetProp(obj1, p, v2)

\* The body of the for-in loop for one key p of obj2, try and catch.
mergeKey(obj1, p, v2) ==
  LET tried ==
        IF IsNullish(v2) THEN Thrown                \* obj2[p].constructor
        ELSE IF v2.t = "object" THEN
          IF IsNullish(obj1) THEN Thrown            \* obj1[p]
          ELSE LET r == mergeJSON(GetProp(obj1, p), v2)
               IN  IF r.threw THEN Thrown ELSE SetProp(obj1, p, r.val)
        ELSE SetProp(obj1, p, v2)
  IN  IF tried.threw THEN SetProp(obj1, p, v2) ELSE tried

mergeFrom(obj1, pairs, i) ==
  IF i > Len(pairs) THEN Done(obj1)
  ELSE LET step == mergeKey(obj1, pairs[i].k, pairs[i].v)
       IN  IF step.threw THEN step ELSE mergeFrom(step.val, pairs, i + 1)

mergeJSON(obj1, obj2) == mergeFrom(obj1, obj2.pairs, 1)

mergeObject(a, b) == mergeJSON(a, b)

----------------------------------------------------------------------------
(* Key paths of a tree *)

RECURSIVE Lookup(_, _)
\* The value at a key path, Undefined where the path leaves the tree.
Lookup(v, path) ==
  IF path = <<>> THEN v
  ELSE IF IsNullish(v) THEN Undefined
  ELSE Lookup(GetProp(v, Head(path)), Tail(path))

RECURSIVE LeafPaths(_)
\* The key paths at which a tree holds a scalar, null or an array.
LeafPaths(v) ==
  IF v.t # "object" THEN {<<>>}
  ELSE UNION {{<<v.pairs[i].k>> \o q : q \in LeafPaths(v.pairs[i].v)} :
                i \in 1..Len(v.pairs)}

Prefixes(path) == {SubSeq(path, 1, n) : n \in 1..Len(path)}

\* b says nothing about the key path: it has no value there and no leaf on
\* the way there.
Silent(b, path) ==
  /\ Lookup(b, path) = Undefined
  /\ \A q \in Prefixes(path) : q \notin LeafPaths(b)

----------------------------------------------------------------------------
(* Strings and the serialized tree *)

UpperChars ==
  {"A", "B", "C", "D", "E", "F", "G", "H", "I", "J", "K", "L", "M",
   "N", "O", "P", "Q", "R", "S", "T", "U", "V", "W", "X", "Y", "Z"}
LowerChars ==
  {"a", "b", "c", "d", "e", "f", "g", "h", "i", "j", "k", "l", "m",
   "n", "o", "p", "q", "r", "s", "t", "u", "v", "w", "x", "y", "z"}
DigitChars == {"0", "1", "2", "3", "4", "5", "6", "7", "8", "9"}

\* The characters of the class [A-z0-9_\-\.]: the range A-z also holds the
\* characters between Z and a (of which the backslash and the backquote
\* are left out here).
ClassChars ==
  UpperChars \cup LowerChars \cup DigitChars \cup
  {"_", "-", ".", "[", "]", "^"}

Tok(name) == <<"%">> \o name \o <<"%">>

\* The characters of a key.  A key of several letters that no token of the
\* model refers to stays one chunk.
Spell(k) ==
  CASE k = "UID" -> <<"U", "I", "D">>
    [] k = "DIST" -> <<"D", "I", "S", "T">>
    [] OTHER -> <<k>>

LBrace == [lx |-> "{"]
RBrace == [lx |-> "}"]
LBracket == [lx |-> "["]
RBracket == [lx |-> "]"]

RECURSIVE stringify(_)
RECURSIVE stringifyPairs(_, _)
RECURSIVE stringifyItems(_, _)

\* JSON.stringify leaves out a property whose value is undefined.
stringifyPairs(pairs, i) ==
  IF i > Len(pairs) THEN <<>>
  ELSE (IF pairs[i].v = Undefined THEN <<>>
        ELSE <<[lx |-> "key", k |-> pairs[i].k]>> \o stringify(pairs[i].v))
       \o stringifyPairs(pairs, i + 1)

\* An undefined item of an array is written as null.
stringifyItems(items, i) ==
  IF i > Len(items) THEN <<>>
  ELSE (IF items[i] = Undefined THEN <<[lx |-> "literal", v |-> Null]>>
        ELSE stringify(items[i]))
       \o stringifyItems(items, i + 1)

\* JSON.stringify, as the sequence of lexemes of the text.  The named
\* properties of an array are not written.
stringify(v) ==
  CASE v.t = "object" -> <<LBrace>> \o stringifyPairs(v.pairs, 1) \o <<RBrace>>
    [] v.t = "array" -> <<LBracket>> \o stringifyItems(v.items, 1) \o <<RBracket>>
    [] v.t = "string" -> <<[lx |-> "string", s |-> v.s]>>
    [] OTHER -> <<[lx |-> "literal", v |-> v]>>

RECURSIVE parseValue(_, _)
RECURSIVE parseMembers(_, _, _)
RECURSIVE parseItems(_, _, _)

\* A repeated key keeps its first place and takes the last value.
parseMembers(text, i, acc) ==
  IF text[i].lx = "}" THEN [val |-> Obj(acc), next |-> i + 1]
  ELSE LET r == parseValue(text, i + 1)
       IN  parseMembers(text, r.next, PutPair(acc, text[i].k, r.val))

parseItems(text, i, acc) ==
  IF text[i].lx = "]" THEN [val |-> Arr(acc, <<>>), next |-> i + 1]
  ELSE LET r == parseValue(text, i)
       IN  parseItems(text, r.next, Append(acc, r.val))

parseValue(text, i) ==
  CASE text[i].lx = "{" -> parseMembers(text, i + 1, <<>>)
    [] text[i].lx = "[" -> parseItems(text, i + 1, <<>>)
    [] text[i].lx = "string" -> [val |-> Str(text[i].s), next |-> i + 1]
    [] OTHER -> [val |-> text[i].v, next |-> i + 1]

\* JSON.parse
parse(text) == parseValue(text, 1).val

\* The first position after i that holds no character of the class.
ClassRunEnd(s, i) ==
  CHOOSE j \in (i + 1)..(Len(s) + 1) :
    /\ \A m \in (i + 1)..(j - 1) : s[m] \in ClassChars
    /\ j = Len(s) + 1 \/ s[j] \notin ClassChars

RECURSIVE matchFrom(_, _)
\* The matches of /%([A-z0-9_\-\.]+)%/g in one string, left to right.
matchFrom(s, i) ==
  IF i > Len(s) THEN <<>>
  ELSE IF s[i] = "%" THEN
    LET j == ClassRunEnd(s, i)
    IN  IF j <= Len(s) /\ s[j] = "%" /\ j > i + 1
          THEN <<SubSeq(s, i, j)>> \o matchFrom(s, j + 1)
          ELSE matchFrom(s, i + 1)
  ELSE matchFrom(s, i + 1)

\* The characters of a lexeme that the regular expressions run over.  The
\* quotes around a string are outside the class, so no match spans two
\* lexemes.
LexChars(l) ==
  CASE l.lx = "string" -> l.s
    [] l.lx = "key" -> Spell(l.k)
    [] OTHER -> <<>>

RECURSIVE matchText(_, _)
\* tmpFile.match(/%([A-z0-9_\-\.]+)%/g) || []
matchText(text, i) ==
  IF i > Len(text) THEN <<>>
  ELSE matchFrom(LexChars(text[i]), 1) \o matchText(text, i + 1)

RECURSIVE firstSeen(_, _)
\* The filter of the word list: the first occurrence of each word.
firstSeen(ws, seen) ==
  IF ws = <<>> THEN <<>>
  ELSE IF Head(ws) \in seen THEN firstSeen(Tail(ws), seen)
  ELSE <<Head(ws)>> \o firstSeen(Tail(ws), seen \cup {Head(ws)})

\* The pattern matches at position i.  A "." of the pattern is the regular
\* expression's wildcard and matches any character.
MatchesAt(s, i, pat) ==
  /\ i + Len(pat) - 1 <= Len(s)
  /\ \A j \in 1..Len(pat) : pat[j] = "." \/ pat[j] = s[i + j - 1]

RECURSIVE replaceFrom(_, _, _, _)
\* str.replace(new RegExp(pat, 'g'), rep) on the characters of one string.
replaceFrom(s, i, pat, rep) ==
  IF i > Len(s) THEN <<>>
  ELSE IF MatchesAt(s, i, pat) THEN rep \o replaceFrom(s, i + Len(pat), pat, rep)
  ELSE <<s[i]>> \o replaceFrom(s, i + 1, pat, rep)

\* Only the first match in the text is replaced, as by a regular expression
\* without the g flag.
replaceTextOnce(text, pat, rep) ==
  LET hits == {i \in 1..Len(text) :
                 /\ text[i].lx = "string"
                 /\ \E j \in 1..Len(text[i].s) : MatchesAt(text[i].s, j, pat)}
  IN  IF hits = {} THEN text
      ELSE LET i == CHOOSE h \in hits : \A g \in hits : h <= g
               str == text[i].s
               j == CHOOSE m \in 1..Len(str) :
                      /\ MatchesAt(str, m, pat)
                      /\ \A n \in 1..(m - 1) : ~MatchesAt(str, n, pat)
           IN  [text EXCEPT ![i] =
                  [lx |-> "string",
                   s |-> SubSeq(str, 1, j - 1) \o rep \o
                         SubSeq(str, j + Len(pat), Len(str))]]

\* The global replace on the whole text.  Keys hold no "%" and every pattern
\* starts with one, so a key is never rewritten.
replaceText(text, pat, rep) ==
  [i \in 1..Len(text) |->
     IF text[i].lx = "string"
       THEN [lx |-> "string", s |-> replaceFrom(text[i].s, 1, pat, rep)]
       ELSE text[i]]

----------------------------------------------------------------------------
(* configuration.js: getConfiguration, resolveConfigurationVariables *)

\* process.env.OSJS_ROOT, a path.
ROOT == <<"/", "r">>

\* utils.fixWinPath: the platform is not Windows, the path is returned as is.
fixWinPath(str) == str

safeWords ==
  {Tok(<<"V", "E", "R", "S", "I", "O", "N">>),
   Tok(<<"D", "I", "S", "T">>),
   Tok(<<"D", "R", "O", "O", "T">>),
   Tok(<<"U", "I", "D">>),
   Tok(<<"U", "S", "E", "R", "N", "A", "M", "E">>)}

RECURSIVE splitDots(_, _)
\* query.split(/\./)
splitDots(p, cur) ==
  IF p = <<>> THEN <<cur>>
  ELSE IF Head(p) = "." THEN <<cur>> \o splitDots(Tail(p), <<>>)
  ELSE splitDots(Tail(p), Append(cur, Head(p)))

\* ns[k] for a key given by its characters.
PropSpelled(ns, s) ==
  IF ns.t = "object" /\ \E i \in 1..Len(ns.pairs) : Spell(ns.pairs[i].k) = s
    THEN ns.pairs[CHOOSE i \in 1..Len(ns.pairs) : Spell(ns.pairs[i].k) = s].v
    ELSE Undefined

RECURSIVE walkQuery(_, _)
walkQuery(ns, segs) ==
  IF Len(segs) = 1 THEN PropSpelled(ns, Head(segs))
  ELSE walkQuery(PropSpelled(ns, Head(segs)), Tail(segs))

\* getConfiguration(config, query) without a default value: the value at the
\* dot-path, undefined where there is none.
getConfiguration(config, query) == walkQuery(config, splitDots(query, <<>>))

RECURSIVE joinItems(_, _)
RECURSIVE String(_)

joinItems(items, i) ==
  IF i > Len(items) THEN <<>>
  ELSE (IF IsNullish(items[i]) THEN <<>> ELSE String(items[i]))
       \o (IF i < Len(items) THEN <<",">> ELSE <<>>)
       \o joinItems(items, i + 1)

\* String(value)
String(v) ==
  CASE v.t = "string" -> v.s
    [] v.t = "number" -> <<ToString(v.n)>>
    [] v.t = "boolean" ->
         IF v.b THEN <<"t", "r", "u", "e">> ELSE <<"f", "a", "l", "s", "e">>
    [] v.t = "null" -> <<"n", "u", "l", "l">>
    [] v.t = "undefined" -> <<"u", "n", "d", "e", "f", "i", "n", "e", "d">>
    [] v.t = "array" -> joinItems(v.items, 1)
    [] OTHER -> <<"[", "o", "b", "j", "e", "c", "t", " ",
                  "O", "b", "j", "e", "c", "t", "]">>

\* A value is truthy: the left side of || is taken.
Truthy(v) ==
  CASE v.t = "string" -> v.s # <<>>
    [] v.t = "number" -> v.n # 0
    [] v.t = "boolean" -> v.b
    [] v.t \in {"undefined", "null", "none"} -> FALSE
    [] OTHER -> TRUE

\* process.env[p]
EnvGet(e, p) == IF p \in DOMAIN e THEN Str(e[p]) ELSE Undefined

\* /^[A-Z]*$/.test(p)
IsUpper(p) == \A i \in 1..Len(p) : p[i] \in UpperChars

\* w.replace(/%/g, '')
NameOf(w) == SubSeq(w, 2, Len(w) - 1)

\* The tree is asked first and the environment only for what it lacks.
wordValueTreeFirst(e, tmpConfig, w) ==
  LET p == NameOf(w)
      fromTree == getConfiguration(tmpConfig, p)
  IN  IF Truthy(fromTree) \/ ~IsUpper(p) THEN fromTree ELSE EnvGet(e, p)

\* The value a word is replaced by:
\* (u ? process.env[p] : null) || getConfiguration(tmpConfig, p)
wordValue(e, tmpConfig, w) ==
  LET p == NameOf(w)
      fromEnv == IF IsUpper(p) THEN EnvGet(e, p) ELSE Null
  IN  IF Truthy(fromEnv) THEN fromEnv ELSE getConfiguration(tmpConfig, p)

\* The words the loop replaces: those that are no safe words.
replacedWords(words) == SelectSeq(words, LAMBDA w : w \notin safeWords)

RECURSIVE replaceWords(_, _, _, _)
\* words.forEach: each word that is not a safe word is replaced in the text
\* by a regular expression built from the word as it stands (the escaping
\* of line 251 replaces every special character by itself).
replaceWords(e, tmpConfig, words, text) ==
  IF words = <<>> THEN text
  ELSE LET w == Head(words)
       IN  replaceWords(e, tmpConfig, Tail(words),
             IF w \in safeWords THEN text
             ELSE replaceText(text, w, String(wordValue(e, tmpConfig, w))))

\* The text the words are taken from: %ROOT% and, with an overlay, %OVERLAY%
\* are replaced first.
preparedText(obj, overlay) ==
  LET t1 == replaceText(stringify(obj), Tok(<<"R", "O", "O", "T">>),
                        fixWinPath(ROOT))
  IN  IF Truthy(overlay)
        THEN replaceText(t1, Tok(<<"O", "V", "E", "R", "L", "A", "Y">>),
                         fixWinPath(overlay.s))
        ELSE t1

wordsOf(text) == firstSeen(matchText(text, 1), {})

resolveConfigurationVariables(e, obj, overlay) ==
  LET tmpFile == preparedText(obj, overlay)
      words == wordsOf(tmpFile)
      tmpConfig == parse(tmpFile)
  IN  parse(replaceWords(e, tmpConfig, words, tmpFile))

----------------------------------------------------------------------------
(* Operations at rest *)

\* The parts of the state an operation that is not running leaves alone.
MergeIdle == into = None /\ from = None /\ merged = None
ResolveIdle == tree = None /\ once = None /\ twice = None /\ replaced = <<>>
NoEnv == env = <<>>
NoFiles == confFiles = <<>> /\ confDirs = {}
ReaderIdle ==
  /\ object = None /\ rpc = "idle" /\ paths = <<>>
  /\ mergeLog = <<>> /\ warnings = <<>>
ReadIdle == ReaderIdle /\ cfg = None
NoPackages == pkgFiles = <<>> /\ pkgDirs = {}
PkgIdle ==
  /\ searchPaths = <<>> /\ pending = {} /\ list = <<>> /\ metas = <<>>
  /\ nextMeta = 0 /\ result = None /\ ppc = "idle" /\ settled = "pending"
BuildIdle ==
  /\ returned = None /\ standalone = FALSE /\ themes = None
  /\ classNames = <<>> /\ extensionConf = <<>>
  /\ client = [pc |-> "idle", settings |-> None, preloads |-> None,
                data |-> <<>>]
  /\ server = [pc |-> "idle", settings |-> None, data |-> <<>>]
  /\ distSettings = <<>> /\ settingsJson = <<>>
MetaIdle ==
  /\ cliRepositories = <<>> /\ filter = "all" /\ packageConf = <<>>
  /\ repos = <<>> /\ repoPending = {} /\ metaList = None
  /\ metaSettled = "pending" /\ metaResult = None /\ mpc = "idle"
  /\ manifest = <<>>
ThemesIdle ==
  /\ themeFiles = <<>> /\ globFails = {} /\ themePending = {}
  /\ themeResult = None /\ themeSettled = "pending" /\ tpc = "idle"
\* Everything the builders need is there and can be written.
OutIdle ==
  /\ template = TRUE /\ writable = TRUE
  /\ outDirs = [d \in {"dist", "server"} |-> "present"]
\* No task and no batch of builds is under way.
NoTask ==
  [name |-> "none", opt |-> <<>>, pc |-> "idle", value |-> [t |-> "none"]]
TaskIdle == task = NoTask /\ io = <<>> /\ custom = <<>> /\ disk = <<>>
BatchIdle ==
  /\ webpackFails = {} /\ buildQueue = <<>> /\ building = [t |-> "none"]
  /\ started = <<>> /\ bpc = "idle"
WebpackIdle == argv = [t |-> "none"] /\ shell = <<>> /\ options = <<>>
SeqIdle ==
  /\ tasks = <<>> /\ running = [t |-> "none"] /\ ran = <<>> /\ failing = {}
  /\ seqpc = "idle"
MoreIdle == pkgMeta = [t |-> "none"] /\ SeqIdle
ExtraIdle == WebpackIdle /\ MoreIdle
RunIdle == TaskIdle /\ BatchIdle /\ ExtraIdle
NotMetaIdle == ThemesIdle /\ OutIdle /\ RunIdle
NotThemesIdle == OutIdle /\ RunIdle
LaterIdle == MetaIdle /\ NotMetaIdle

----------------------------------------------------------------------------
(* configuration.js: readConfigurationTree *)

\* The content of a fragment file that is not valid JSON.
Malformed == [t |-> "malformed"]

\* path.dirname(path.resolve(ROOT, f, 'conf')) for the overlay named f.
overlayRoot(f) == ROOT \o <<"/", f>>

\* What _read has done after some of the files of a directory.
ReadState(obj, log, warned) == [object |-> obj, log |-> log, warned |-> warned]

\* The body of files.forEach for one file: a file that cannot be parsed is
\* warned about and skipped; a fragment of an overlay has its placeholders
\* resolved with the overlay's root; the fragment is merged into the tree.
readFile(e, st, dir, i, content, r) ==
  IF content = Malformed
    THEN ReadState(st.object, st.log, Append(st.warned, <<dir, i>>))
    ELSE LET json == IF Truthy(r)
                       THEN resolveConfigurationVariables(e, content, r)
                       ELSE content
             m == mergeObject(st.object, json)
         IN  IF m.threw
               THEN ReadState(st.object, st.log, Append(st.warned, <<dir, i>>))
               ELSE ReadState(m.val, Append(st.log, <<dir, i>>), st.warned)

RECURSIVE readFilesStopping(_, _, _, _, _, _)
\* A reader that gives up on a directory at its first unreadable file; the
\* claims about malformed fragments have to tell it from readFiles.
readFilesStopping(e, st, dir, files, i, r) ==
  IF i > Len(files) THEN st
  ELSE IF files[i] = Malformed
    THEN ReadState(st.object, st.log, Append(st.warned, <<dir, i>>))
  ELSE readFilesStopping(e, readFile(e, st, dir, i, files[i], r), dir, files,
                         i + 1, r)

RECURSIVE readFiles(_, _, _, _, _, _)
\* files.forEach over the files glob found in one directory.
readFiles(e, st, dir, files, i, r) ==
  IF i > Len(files) THEN st
  ELSE readFiles(e, readFile(e, st, dir, i, files[i], r), dir, files, i + 1, r)

\* object.overlays || []
overlaysOf(obj) ==
  LET o == GetProp(obj, "overlays") IN IF Truthy(o) THEN o ELSE Arr(<<>>, <<>>)

\* overlays.map(...) throws unless overlays is an array of strings.
OverlaysUsable(o) ==
  o.t = "array" /\ \A i \in 1..Len(o.items) : o.items[i].t = "string"

\* The overlay directories to read: those of the list, in its order, whose
\* conf directory exists.
overlayPaths(o, existing) ==
  SelectSeq([i \in 1..Len(o.items) |-> o.items[i].s[1]],
            LAMBDA f : f \in existing)

\* The glob of src/conf has answered: every base fragment is read and merged.
ReadBase ==
  /\ rpc = "start"
  /\ LET st == readFiles(env, ReadState(object, mergeLog, warnings), "base",
                         confFiles["base"], 1, Undefined)
     IN  /\ object' = st.object
         /\ mergeLog' = st.log
         /\ warnings' = st.warned
  /\ rpc' = "base"
  /\ UNCHANGED <<mergeVars, env, resolveVars, fsVars, paths, cfg, pkgFsVars,
                 pkgVars,
                 laterVars, buildInputs, buildVars>>

\* _read(basePath).then: the overlay directories are taken from the tree.
ListOverlays ==
  /\ rpc = "base"
  /\ LET o == overlaysOf(object)
     IN  IF OverlaysUsable(o)
           THEN /\ paths' = overlayPaths(o, confDirs)
                /\ rpc' = "overlays"
                /\ cfg' = cfg
           ELSE /\ paths' = paths
                /\ rpc' = "rejected"
                /\ cfg' = cfg
  /\ UNCHANGED <<mergeVars, env, resolveVars, fsVars, object, mergeLog,
                 warnings, pkgFsVars, pkgVars,
                 laterVars, buildInputs, buildVars>>

\* Promise.each: the glob of the next overlay directory has answered.
ReadOverlay ==
  /\ rpc = "overlays" /\ paths # <<>>
  /\ LET dir == Head(paths)
         st == readFiles(env, ReadState(object, mergeLog, warnings), dir,
                         confFiles[dir], 1, Str(overlayRoot(dir)))
     IN  /\ object' = st.object
         /\ mergeLog' = st.log
         /\ warnings' = st.warned
  /\ paths' = Tail(paths)
  /\ UNCHANGED <<mergeVars, env, resolveVars, fsVars, rpc, cfg, pkgFsVars,
                 pkgVars,
                 laterVars, buildInputs, buildVars>>

\* Every overlay is read: the placeholders of the whole tree are resolved and
\* the promise resolves with the frozen tree.
FinishRead ==
  /\ rpc = "overlays" /\ paths = <<>>
  /\ cfg' = resolveConfigurationVariables(env, object, Undefined)
  /\ rpc' = "resolved"
  /\ UNCHANGED <<mergeVars, env, resolveVars, fsVars, object, paths, mergeLog,
                 warnings, pkgFsVars, pkgVars,
                 laterVars, buildInputs, buildVars>>

----------------------------------------------------------------------------
(* Inputs of the configuration tree reader *)

MaxFiles == 4

Fragments ==
  {Obj(<<Pair("a", Num(1))>>),
   Obj(<<Pair("a", Num(2)), Pair("b", Num(3))>>),
   Obj(<<Pair("a", Obj(<<Pair("x", Num(1))>>)),
         Pair("b", Arr(<<Num(1)>>, <<>>))>>),
   Malformed}

\* The file lists of exactly n fragments.
FileLists(n) == [1..n -> Fragments]

\* The numbers of files a directory may hold when room is left for `left`.
FileCounts(present, left) == IF present THEN 0..left ELSE {0}

\* The overlays key of the base tree: absent, one overlay, two overlays (listed
\* against the order of their names), or a value that is no list.
OverlayLists ==
  {Undefined,
   Arr(<<Str(<<"o2">>)>>, <<>>),
   Arr(<<Str(<<"o2">>), Str(<<"o1">>)>>, <<>>),
   Num(1)}

Listed(o) ==
  IF o.t = "array" THEN {o.items[i].s[1] : i \in 1..Len(o.items)} ELSE {}

\* The base directory starts with the fragment that sets overlays, if any;
\* only an overlay that is listed and exists has files.
InitRead ==
  /\ \E o \in OverlayLists :
     \E dirs \in SUBSET Listed(o) :
     \E n0 \in 0..MaxFiles :
     \E n1 \in FileCounts("o1" \in dirs, MaxFiles - n0) :
     \E n2 \in FileCounts("o2" \in dirs, MaxFiles - n0 - n1) :
     \E base \in FileLists(n0) :
     \E f1 \in FileLists(n1) :
     \E f2 \in FileLists(n2) :
       /\ confDirs = dirs
       /\ confFiles =
            [d \in {"base", "o1", "o2"} |->
               CASE d = "base" ->
                      (IF o = Undefined THEN <<>>
                       ELSE <<Obj(<<Pair("overlays", o)>>)>>) \o base
                 [] d = "o1" -> f1
                 [] OTHER -> f2]
  /\ object = Obj(<<>>)
  /\ rpc = "start"
  /\ paths = <<>> /\ mergeLog = <<>> /\ warnings = <<>> /\ cfg = None
  /\ NoEnv /\ MergeIdle /\ ResolveIdle /\ NoPackages /\ PkgIdle /\ LaterIdle
  /\ BuildIdle

Next == ReadBase \/ ListOverlays \/ ReadOverlay \/ FinishRead

Spec == InitRead /\ [][Next]_vars

----------------------------------------------------------------------------
(* Inputs of the configuration tree reader with placeholders *)

OverlayTok == Tok(<<"O", "V", "E", "R", "L", "A", "Y">>)

\* The fragments of the overlay directory d: its own root under a key of
\* its own and under a key the overlays share, a token for a key of the
\* tree, that key, and both in one fragment.
OverlayFragments(d) ==
  {Obj(<<Pair(d, Str(OverlayTok))>>),
   Obj(<<Pair("p", Str(OverlayTok \o <<"/", "y">>))>>),
   Obj(<<Pair("q", Str(Tok(<<"k">>)))>>),
   Obj(<<Pair("k", Str(<<"z">>))>>),
   Obj(<<Pair("k", Str(<<"z">>)), Pair("q", Str(Tok(<<"k">>)))>>)}

\* At most two fragments of an overlay directory.
OverlayFiles(d, present) ==
  IF present
    THEN {<<>>} \cup {<<f>> : f \in OverlayFragments(d)}
         \cup {<<f, g>> : f \in OverlayFragments(d), g \in OverlayFragments(d)}
    ELSE {<<>>}

\* One or two overlays in either order, each existing or not, and a base
\* tree with or without the key the overlays' tokens name.
InitOverlay ==
  /\ \E o \in {Arr(<<Str(<<"o1">>)>>, <<>>),
               Arr(<<Str(<<"o1">>), Str(<<"o2">>)>>, <<>>),
               Arr(<<Str(<<"o2">>), Str(<<"o1">>)>>, <<>>)} :
     \E dirs \in SUBSET Listed(o) :
     \E k \in {<<>>, <<Pair("k", Str(<<"x">>))>>} :
     \E f1 \in OverlayFiles("o1", "o1" \in dirs) :
     \E f2 \in OverlayFiles("o2", "o2" \in dirs) :
       /\ confDirs = dirs
       /\ confFiles =
            [d \in {"base", "o1", "o2"} |->
               CASE d = "base" -> <<Obj(<<Pair("overlays", o)>> \o k)>>
                 [] d = "o1" -> f1
                 [] OTHER -> f2]
  /\ object = Obj(<<>>)
  /\ rpc = "start"
  /\ paths = <<>> /\ mergeLog = <<>> /\ warnings = <<>> /\ cfg = None
  /\ NoEnv /\ MergeIdle /\ ResolveIdle /\ NoPackages /\ PkgIdle /\ LaterIdle
  /\ BuildIdle

SpecOverlay == InitOverlay /\ [][Next]_vars

----------------------------------------------------------------------------
(* Paths.  A path is the sequence of its segments and separators. *)

RECURSIVE joinPath(_, _)
\* path.join and path.resolve of a directory and relative segments.
joinPath(dir, segs) ==
  IF segs = <<>> THEN dir
  ELSE joinPath(dir \o <<"/", Head(segs)>>, Tail(segs))

\* path.dirname and path.basename of a path below the root.
dirname(f) == SubSeq(f, 1, Len(f) - 2)
basename(f) == f[Len(f)]

\* f.replace(ROOT + '/', '')
stripRoot(f) ==
  LET prefix == ROOT \o <<"/">>
  IN  IF Len(f) >= Len(prefix) /\ SubSeq(f, 1, Len(prefix)) = prefix
        THEN SubSeq(f, Len(prefix) + 1, Len(f))
        ELSE f

RECURSIVE splitSlash(_, _)
\* str.split('/')
splitSlash(p, cur) ==
  IF p = <<>> THEN <<cur>>
  ELSE IF Head(p) = "/" THEN <<cur>> \o splitSlash(Tail(p), <<>>)
  ELSE splitSlash(Tail(p), Append(cur, Head(p)))

\* array.indexOf(v) !== -1
Includes(arr, v) == \E i \in 1..Len(arr.items) : arr.items[i] = v

\* v || d
OrElse(v, d) == IF Truthy(v) THEN v ELSE d

----------------------------------------------------------------------------
(* utils.js: checkEnabledState, getPackagePaths *)

\* A policy that only knows short names; the claims about the enable policy
\* have to tell it from checkEnabledState.
checkEnabledStateShortOnly(enabled, disabled, meta) ==
  LET parts == splitSlash(GetProp(meta, "path").s, <<>>)
      shortName == IF Len(parts) >= 2 THEN Str(parts[2]) ELSE Undefined
  IN  IF String(GetProp(meta, "enabled")) = <<"f", "a", "l", "s", "e">>
        THEN Includes(enabled, shortName)
        ELSE ~Includes(disabled, shortName)

checkEnabledState(enabled, disabled, meta) ==
  LET name == GetProp(meta, "path")
      parts == splitSlash(name.s, <<>>)
      shortName == IF Len(parts) >= 2 THEN Str(parts[2]) ELSE Undefined
  IN  IF String(GetProp(meta, "enabled")) = <<"f", "a", "l", "s", "e">>
        THEN Includes(enabled, shortName) \/ Includes(enabled, name)
        ELSE ~(Includes(disabled, shortName) \/ Includes(disabled, name))

\* The base path of the repository, whether it exists or not, then the
\* packages paths of the overlays that exist, in the order of cfg.overlays.
getPackagePaths(c, repo, existing) ==
  LET overlays == GetProp(c, "overlays").items
  IN  <<joinPath(ROOT, <<"src", "packages", repo>>)>> \o
      SelectSeq([i \in 1..Len(overlays) |->
                   joinPath(ROOT, <<overlays[i].s[1], "packages", repo>>)],
                LAMBDA f : f \in existing)

----------------------------------------------------------------------------
(* packages.js: readMetadataFile, getRepositoryPackages *)

\* iter.match(/\.js/), /\.css/, /\.html/: a dot followed by a segment that
\* begins with the letters.
MatchesExt(str, begins) ==
  \E i \in 1..(Len(str) - 1) : str[i] = "." /\ str[i + 1] \in begins

preloadEntry(iter) ==
  IF iter.t = "string"
    THEN Obj(<<Pair("src", iter),
               Pair("type",
                    IF MatchesExt(iter.s, {"js", "json"})
                      THEN Str(<<"javascript">>)
                    ELSE IF MatchesExt(iter.s, {"css"})
                      THEN Str(<<"stylesheet">>)
                    ELSE IF MatchesExt(iter.s, {"html"})
                      THEN Str(<<"html">>)
                    ELSE Null)>>)
    ELSE iter

\* The promise readMetadataFile returns: rejected when the file cannot be
\* parsed, else resolved with the normalized descriptor.
Rejected == [rejected |-> TRUE, meta |-> Undefined]
Resolved(meta) == [rejected |-> FALSE, meta |-> meta]

\* A reader that lets a descriptor name its own path and repository; the
\* claims about the keys of the package mapping have to tell it from
\* readMetadataFile.
readMetadataFileKeepPath(f, repoArg, json) ==
  IF json = Malformed THEN Rejected
  ELSE
    LET packageName == basename(dirname(f))
        packageRepo == basename(dirname(dirname(f)))
        repo == IF repoArg = "" THEN packageRepo ELSE repoArg
        name == <<repo, "/", packageName>>
        preloaded(m5, all) ==
          Resolved(Obj(PutPair(m5.pairs, "preload",
                     Arr([i \in 1..Len(all) |-> preloadEntry(all[i])], <<>>))))
    IN  TheOne({TheOne({TheOne({TheOne({TheOne({TheOne({
          preloaded(m5, all) :
          all \in {OrElse(GetProp(m5, "preload"), Arr(<<>>, <<>>)).items
                     \o OrElse(GetProp(m5, "sources"), Arr(<<>>, <<>>)).items}}) :
          m5 \in {Obj(PutPair(m4.pairs, "repo", OrElse(GetProp(m4, "repo"), Str(<<repo>>))))}}) :
          m4 \in {Obj(PutPair(m3.pairs, "build",
                               OrElse(GetProp(m3, "build"), Obj(<<>>))))}}) :
          m3 \in {Obj(PutPair(m2.pairs, "path", OrElse(GetProp(m2, "path"), Str(name))))}}) :
          m2 \in {Obj(PutPair(m1.pairs, "type",
                               OrElse(GetProp(m1, "type"),
                                      Str(<<"application">>))))}}) :
          m1 \in {Obj(PutPair(json.pairs, "_src",
                               Str(dirname(stripRoot(f)))))}})

\* meta._src, type, path, build and repo are assigned one after the other,
\* then preload; each assignment is bound to its value before the next one
\* reads it.
readMetadataFile(f, repoArg, json) ==
  IF json = Malformed THEN Rejected
  ELSE
    LET packageName == basename(dirname(f))
        packageRepo == basename(dirname(dirname(f)))
        repo == IF repoArg = "" THEN packageRepo ELSE repoArg
        name == <<repo, "/", packageName>>
        preloaded(m5, all) ==
          Resolved(Obj(PutPair(m5.pairs, "preload",
                     Arr([i \in 1..Len(all) |-> preloadEntry(all[i])], <<>>))))
    IN  TheOne({TheOne({TheOne({TheOne({TheOne({TheOne({
          preloaded(m5, all) :
          all \in {OrElse(GetProp(m5, "preload"), Arr(<<>>, <<>>)).items
                     \o OrElse(GetProp(m5, "sources"), Arr(<<>>, <<>>)).items}}) :
          m5 \in {Obj(PutPair(m4.pairs, "repo", Str(<<repo>>)))}}) :
          m4 \in {Obj(PutPair(m3.pairs, "build",
                               OrElse(GetProp(m3, "build"), Obj(<<>>))))}}) :
          m3 \in {Obj(PutPair(m2.pairs, "path", Str(name)))}}) :
          m2 \in {Obj(PutPair(m1.pairs, "type",
                               OrElse(GetProp(m1, "type"),
                                      Str(<<"application">>))))}}) :
          m1 \in {Obj(PutPair(json.pairs, "_src",
                               Str(dirname(stripRoot(f)))))}})

\* glob(path.join(p, '*', 'metadata.json')): the files in sorted order.
globMetadata(p) ==
  IF p \in DOMAIN pkgFiles
    THEN [i \in 1..Len(pkgFiles[p]) |->
            joinPath(p, <<pkgFiles[p][i][1], "metadata.json">>)]
    ELSE <<>>

\* fs.readJsonSync(f)
readJsonSync(f) ==
  LET entries == pkgFiles[dirname(dirname(f))]
  IN  entries[CHOOSE i \in 1..Len(entries) :
                entries[i][1] = basename(dirname(f))][2]

\* A mapping that never replaces an entry; the claims about duplicate
\* packages have to tell it from storeMetadata.
storeMetadataOnce(res, metadata) ==
  IF GetProp(metadata, "path").s \in KeysOf(res.pairs) THEN res
  ELSE Obj(PutPair(res.pairs, GetProp(metadata, "path").s, metadata))

\* result[metadata.path] = metadata
storeMetadata(res, metadata) ==
  Obj(PutPair(res.pairs, GetProp(metadata, "path").s, metadata))

\* The repository every discovery of the model searches.
Repo == "default"

forceEnabled == OrElse(Lookup(cfg, <<"packages", "ForceEnable">>), Arr(<<>>, <<>>))
forceDisabled == OrElse(Lookup(cfg, <<"packages", "ForceDisable">>), Arr(<<>>, <<>>))

\* getRepositoryPackages is called: the search paths are computed and one
\* glob per search path is started.  Without cfg.overlays the call throws.
GetRepositoryPackages ==
  /\ ppc = "idle"
  /\ IF GetProp(cfg, "overlays").t = "array"
       THEN /\ searchPaths' = getPackagePaths(cfg, Repo, pkgDirs)
            /\ pending' = 1..Len(searchPaths')
            /\ result' = Obj(<<>>)
            /\ ppc' = "globbing"
       ELSE /\ ppc' = "threw"
            /\ UNCHANGED <<searchPaths, pending, result>>
  /\ UNCHANGED <<mergeVars, env, resolveVars, fsVars, readVars, pkgFsVars,
                 list, metas, nextMeta, settled,
                 laterVars, buildInputs, buildVars>>

\* The glob of one search path answers; the globs answer in any order.
GlobDone ==
  /\ ppc = "globbing"
  /\ \E i \in pending :
       /\ list' = list \o globMetadata(searchPaths[i])
       /\ pending' = pending \ {i}
  /\ UNCHANGED <<mergeVars, env, resolveVars, fsVars, readVars, pkgFsVars,
                 searchPaths, metas, nextMeta, result, ppc, settled,
                 laterVars, buildInputs, buildVars>>

\* Every glob has answered: files.map reads each listed file at once.
ReadMetadataFiles ==
  /\ ppc = "globbing" /\ pending = {}
  /\ metas' = [i \in 1..Len(list) |->
                 readMetadataFile(list[i], Repo, readJsonSync(list[i]))]
  /\ nextMeta' = 1
  /\ ppc' = "reading"
  /\ UNCHANGED <<mergeVars, env, resolveVars, fsVars, readVars, pkgFsVars,
                 searchPaths, pending, list, result, settled,
                 laterVars, buildInputs, buildVars>>

\* The callback of the next file's promise, in the order of the list: an
\* enabled descriptor is stored, a failed read rejects the discovery.
HandleMetadata ==
  /\ ppc = "reading" /\ nextMeta <= Len(metas)
  /\ LET m == metas[nextMeta]
     IN  IF m.rejected
           THEN /\ settled' = "rejected"
                /\ result' = result
           ELSE /\ settled' = settled
                /\ result' = IF checkEnabledState(forceEnabled, forceDisabled,
                                                  m.meta)
                               THEN storeMetadata(result, m.meta)
                               ELSE result
  /\ nextMeta' = nextMeta + 1
  /\ UNCHANGED <<mergeVars, env, resolveVars, fsVars, readVars, pkgFsVars,
                 searchPaths, pending, list, metas, ppc,
                 laterVars, buildInputs, buildVars>>

\* Every callback has run: the discovery resolves with the mapping unless a
\* read has rejected it.
SettleDiscovery ==
  /\ ppc = "reading" /\ nextMeta > Len(metas)
  /\ settled' = IF settled = "pending" THEN "resolved" ELSE settled
  /\ ppc' = "done"
  /\ UNCHANGED <<mergeVars, env, resolveVars, fsVars, readVars, pkgFsVars,
                 searchPaths, pending, list, metas, nextMeta, result,
                 laterVars, buildInputs, buildVars>>

----------------------------------------------------------------------------
(* Inputs of the package discovery *)

MaxOverlays == 1

OverlayNames == <<"o1", "o2", "o3">>

False == <<"f", "a", "l", "s", "e">>

\* What a package directory may hold as metadata.json; None for no file.
Descriptors ==
  {None, Malformed, Obj(<<>>),
   Obj(<<Pair("enabled", Bool(TRUE))>>),
   Obj(<<Pair("enabled", Bool(FALSE))>>),
   Obj(<<Pair("enabled", Str(False))>>)}

\* The values of cfg.packages.ForceEnable and ForceDisable.
ForceLists ==
  {Undefined,
   Arr(<<Str(<<"foo">>)>>, <<>>),
   Arr(<<Str(<<Repo, "/", "foo">>)>>, <<>>)}

BasePath == joinPath(ROOT, <<"src", "packages", Repo>>)
OverlayPath(n) == joinPath(ROOT, <<OverlayNames[n], "packages", Repo>>)

\* The configuration the discovery is given.
PkgConfig(overlays, fe, fd) ==
  Obj((IF overlays = Undefined THEN <<>> ELSE <<Pair("overlays", overlays)>>)
      \o <<Pair("packages",
                Obj(<<Pair("ForceEnable", fe), Pair("ForceDisable", fd)>>))>>)

\* Package foo may be in every search path, package bar only in the base.
InitPkg ==
  /\ \E n \in 0..MaxOverlays :
     \E dirs \in SUBSET {OverlayPath(i) : i \in 1..n} :
     \E foo \in [{BasePath} \cup dirs -> Descriptors] :
     \E bar \in {None, Obj(<<>>)} :
     \E fe \in ForceLists :
     \E fd \in ForceLists :
     \E listed \in BOOLEAN :
       /\ (~listed) => (n = 0 /\ foo[BasePath] = None /\ bar = None)
       /\ cfg = PkgConfig(IF listed
                            THEN Arr([i \in 1..n |-> Str(<<OverlayNames[i]>>)],
                                     <<>>)
                            ELSE Undefined, fe, fd)
       /\ pkgDirs = dirs
       /\ pkgFiles =
            [p \in {BasePath} \cup dirs |->
               (IF p = BasePath /\ bar # None THEN <<<<"bar", bar>>>> ELSE <<>>)
               \o (IF foo[p] # None THEN <<<<"foo", foo[p]>>>> ELSE <<>>)]
  /\ PkgIdle /\ LaterIdle
  /\ NoEnv /\ MergeIdle /\ ResolveIdle /\ NoFiles /\ ReaderIdle /\ BuildIdle

NextPkg ==
  \/ GetRepositoryPackages
  \/ GlobDone
  \/ ReadMetadataFiles
  \/ HandleMetadata
  \/ SettleDiscovery

SpecPkg == InitPkg /\ [][NextPkg]_vars

----------------------------------------------------------------------------
(* Inputs of readMetadataFile's preload list *)

MaxPreload == 2

\* The file names a preload or sources entry may be.
PreloadNames ==
  {<<"a", ".", "js">>, <<"a", ".", "css">>, <<"a", ".", "html">>,
   <<"a", ".", "txt">>, <<"a">>, <<"a", ".", "json">>,
   <<"a", ".", "js", ".", "css">>, <<"a", ".", "css", ".", "html">>}

\* An entry that is structured already.
StructuredEntry ==
  Obj(<<Pair("type", Str(<<"javascript">>)),
        Pair("src", Str(<<"a", ".", "css">>))>>)

PreloadEntries == {Str(n) : n \in PreloadNames} \cup {StructuredEntry}

PreloadLists ==
  {Undefined} \cup
  UNION {{Arr(items, <<>>) : items \in [1..n -> PreloadEntries]} :
           n \in 0..MaxPreload}

\* Package foo of the base path with a preload and a sources list.
InitPreload ==
  /\ \E preload \in PreloadLists :
     \E sources \in {Undefined, Arr(<<Str(<<"a", ".", "js">>)>>, <<>>),
                     Arr(<<StructuredEntry, Str(<<"a", ".", "json">>)>>, <<>>)} :
       /\ pkgFiles =
            [p \in {BasePath} |->
               <<<<"foo",
                   Obj((IF preload = Undefined THEN <<>>
                        ELSE <<Pair("preload", preload)>>) \o
                       (IF sources = Undefined THEN <<>>
                        ELSE <<Pair("sources", sources)>>))>>>>]
  /\ cfg = PkgConfig(Arr(<<>>, <<>>), Undefined, Undefined)
  /\ pkgDirs = {}
  /\ PkgIdle /\ LaterIdle
  /\ NoEnv /\ MergeIdle /\ ResolveIdle /\ NoFiles /\ ReaderIdle /\ BuildIdle

SpecPreload == InitPreload /\ [][NextPkg]_vars

----------------------------------------------------------------------------
(* packages.js: getMetadata; utils.js: mutateManifest;
   packages.js: buildServerManifest *)

Space == " "

RECURSIVE dropSpaces(_)
\* The string without the white space it begins with.
dropSpaces(str) ==
  IF str # <<>> /\ Head(str) = Space THEN dropSpaces(Tail(str)) ELSE str

RECURSIVE replaceSpaces(_)
\* str.replace(/\s+/, ''): the first run of white space is removed.
replaceSpaces(str) ==
  IF str = <<>> THEN <<>>
  ELSE IF Head(str) = Space THEN dropSpaces(str)
  ELSE <<Head(str)>> \o replaceSpaces(Tail(str))

RECURSIVE trimEnd(_)
trimEnd(str) ==
  IF str # <<>> /\ str[Len(str)] = Space
    THEN trimEnd(SubSeq(str, 1, Len(str) - 1))
    ELSE str

\* str.trim()
trim(str) == trimEnd(dropSpaces(str))

RECURSIVE splitComma(_, _)
\* str.split(',')
splitComma(str, cur) ==
  IF str = <<>> THEN <<cur>>
  ELSE IF Head(str) = "," THEN <<cur>> \o splitComma(Tail(str), <<>>)
  ELSE splitComma(Tail(str), Append(cur, Head(str)))

\* The repositories the --repositories option names.  The option values of
\* the model spell each name with one word.
cliRepos(option) ==
  LET cliRepoString == trim(replaceSpaces(option))
      names == splitComma(cliRepoString, <<>>)
  IN  IF cliRepoString = <<>> THEN <<>>
      ELSE [i \in 1..Len(names) |-> names[i][1]]

\* The orders in which n concurrent operations can answer.
Orders(n) == {o \in [1..n -> 1..n] : \A i, j \in 1..n : o[i] = o[j] => i = j}

RECURSIVE listFiles(_, _, _)
\* list = list.concat(g), once per glob, in the order the globs answer.
listFiles(searched, order, i) ==
  IF i > Len(order) THEN <<>>
  ELSE globMetadata(searched[order[i]]) \o listFiles(searched, order, i + 1)

RECURSIVE storeEnabled(_, _, _, _)
\* The callbacks of the files' promises, in the order of the list.
storeEnabled(c, res0, read, i) ==
  IF i > Len(read) THEN res0
  ELSE TheOne({
         storeEnabled(c,
           IF checkEnabledState(
                OrElse(Lookup(c, <<"packages", "ForceEnable">>),
                       Arr(<<>>, <<>>)),
                OrElse(Lookup(c, <<"packages", "ForceDisable">>),
                       Arr(<<>>, <<>>)),
                m)
             THEN storeMetadata(res, m)
             ELSE res,
           read, i + 1) :
         res \in {res0}, m \in {read[i].meta}})

\* The promise getRepositoryPackages(c, repo) returns when its globs answer
\* in the given order: rejected when the call throws or a file cannot be
\* parsed, else resolved with the mapping of the enabled packages.
getRepositoryPackages(c, repo, order) ==
  IF GetProp(c, "overlays").t # "array" \/ GetProp(c, "packages").t # "object"
    THEN Rejected
  ELSE TheOne({
         TheOne({
           IF \E i \in 1..Len(read) : read[i].rejected THEN Rejected
           ELSE Resolved(storeEnabled(c, Obj(<<>>), read, 1)) :
           read \in {[i \in 1..Len(files) |->
                        TheOne({r : r \in {readMetadataFile(files[i], repo,
                                              readJsonSync(files[i]))}})]}}) :
         files \in {listFiles(getPackagePaths(c, repo, pkgDirs), order, 1)}})

RECURSIVE assign(_, _, _)
\* Object.assign(target, source)
assign(target0, source, i) ==
  IF i > Len(source.pairs) THEN target0
  ELSE TheOne({
         assign(Obj(PutPair(target.pairs, source.pairs[i].k,
                            source.pairs[i].v)),
                source, i + 1) : target \in {target0}})

\* The filters the callers give: none, the one of buildServerConfiguration
\* and the one of buildClientConfiguration.
passesFilter(f, pkg, k) ==
  CASE f = "extension" -> GetProp(pkg, "type") = Str(<<"extension">>)
    [] f = "autostart" -> GetProp(pkg, "autostart") = Bool(TRUE)
    [] OTHER -> TRUE

\* The entries of the list the filter lets through, in the list's order.
filtered(f, all) ==
  Obj(SelectSeq(all.pairs, LAMBDA e : passesFilter(f, e.v, e.k)))

\* delete obj[p]
deleteProp(obj, p) == Obj(SelectSeq(obj.pairs, LAMBDA e : e.k # p))

\* A manifest that marks every package singular; the claims about the
\* server manifest have to tell it from mutateManifest.
mutatePackageAllSingular(pkg) ==
  LET p1 == IF Truthy(GetProp(pkg, "build")) THEN deleteProp(pkg, "build")
            ELSE pkg
      p2 == IF GetProp(p1, "enabled") # Undefined
              THEN deleteProp(p1, "enabled") ELSE p1
  IN  Obj(PutPair(p2.pairs, "singular", Bool(TRUE)))

\* The body of mutateManifest's loop, for one package.
mutatePackage(pkg) ==
  LET p1 == IF Truthy(GetProp(pkg, "build")) THEN deleteProp(pkg, "build")
            ELSE pkg
      p2 == IF GetProp(p1, "enabled") # Undefined
              THEN deleteProp(p1, "enabled") ELSE p1
  IN  IF GetProp(p2, "type") = Str(<<"service">>)
        THEN Obj(PutPair(p2.pairs, "singular", Bool(TRUE)))
        ELSE p2

\* The mapping itself is copied, the descriptors it holds are changed in
\* place.
mutateManifest(pkgs) ==
  Obj([i \in 1..Len(pkgs.pairs) |->
         Pair(pkgs.pairs[i].k, mutatePackage(pkgs.pairs[i].v))])

\* getMetadata(cfg, cli, filter) is called: the repositories come from the
\* option or else from cfg.repositories, and one discovery per repository is
\* started.  Without either the call throws in the promise's executor.
getMetadataCalled ==
  /\ mpc = "idle"
  /\ LET named == cliRepos(cliRepositories)
         listed == GetProp(cfg, "repositories")
     IN  IF Len(named) = 0 /\ listed.t # "array"
           THEN /\ metaSettled' = "rejected"
                /\ mpc' = "done"
                /\ UNCHANGED <<repos, repoPending>>
           ELSE /\ repos' = IF Len(named) > 0 THEN named
                            ELSE [i \in 1..Len(listed.items) |->
                                    listed.items[i].s[1]]
                /\ repoPending' = 1..Len(repos')
                /\ mpc' = "repos"
                /\ UNCHANGED metaSettled
  /\ metaList' = Obj(<<>>)
  /\ UNCHANGED <<metaInputs, metaResult, manifest>>

\* getMetadata called by buildServerManifest or by a task.
GetMetadata ==
  /\ getMetadataCalled
  /\ UNCHANGED <<mergeVars, env, resolveVars, fsVars, readVars, pkgFsVars,
                 pkgVars, buildInputs, buildVars, notMeta>>

\* The discovery of one repository answers; the discoveries answer in any
\* order, and so do the globs of each.  A resolved one is assigned to the
\* list, the first rejected one rejects the call.
RepositoryDone ==
  /\ mpc = "repos"
  /\ \E i \in repoPending :
     \E order \in Orders(Len(getPackagePaths(cfg, repos[i], pkgDirs))) :
     \E found \in {getRepositoryPackages(cfg, repos[i], order)} :
       /\ repoPending' = repoPending \ {i}
       /\ IF found.rejected
            THEN /\ metaSettled' = "rejected"
                 /\ UNCHANGED metaList
            ELSE /\ metaList' = assign(metaList, found.meta, 1)
                 /\ UNCHANGED metaSettled
  /\ UNCHANGED <<mergeVars, env, resolveVars, fsVars, readVars, pkgFsVars,
                 pkgVars, buildInputs, buildVars, metaInputs, repos,
                 metaResult, mpc, manifest, notMeta>>

\* Every discovery has resolved: the call resolves with the entries of the
\* list the filter lets through.
ResolveMetadata ==
  /\ mpc = "repos" /\ repoPending = {}
  /\ mpc' = "done"
  /\ IF metaSettled = "pending"
       THEN /\ metaSettled' = "resolved"
            /\ metaResult' = filtered(filter, metaList)
       ELSE UNCHANGED <<metaSettled, metaResult>>
  /\ UNCHANGED <<mergeVars, env, resolveVars, fsVars, readVars, pkgFsVars,
                 pkgVars, buildInputs, buildVars, metaInputs, repos,
                 repoPending, metaList, manifest, notMeta>>

\* buildServerManifest's callback and the write it starts: the descriptors
\* of the result are changed in place and the manifest is written.
WriteManifest ==
  /\ mpc = "done" /\ metaSettled = "resolved" /\ filter = "all"
  /\ metaResult' = mutateManifest(metaResult)
  /\ manifest' = stringify(metaResult')
  /\ mpc' = "written"
  /\ UNCHANGED <<mergeVars, env, resolveVars, fsVars, readVars, pkgFsVars,
                 pkgVars, buildInputs, buildVars, metaInputs, repos,
                 repoPending, metaList, metaSettled, notMeta>>

----------------------------------------------------------------------------
(* Inputs of getMetadata *)

Repositories == <<"default", "extra">>

\* The values of the --repositories option.
RepositoryOptions ==
  {<<>>, <<"extra">>, <<Space, "extra", Space>>,
   <<"extra", ",", Space, "default">>}

\* The values of cfg.repositories.
RepositoryLists ==
  {Undefined,
   Arr(<<Str(<<"default">>)>>, <<>>),
   Arr(<<Str(<<"default">>), Str(<<"extra">>)>>, <<>>)}

ServiceDescriptor ==
  Obj(<<Pair("type", Str(<<"service">>)), Pair("enabled", Bool(TRUE)),
        Pair("build", Obj(<<Pair("copy", Arr(<<>>, <<>>))>>)),
        Pair("singular", Bool(FALSE))>>)
ExtensionDescriptor ==
  Obj(<<Pair("type", Str(<<"extension">>)),
        Pair("conf", Arr(<<Str(<<"c", ".", "json">>)>>, <<>>))>>)
MisnamedDescriptor ==
  Obj(<<Pair("path", Str(<<"other", "/", "thing">>)),
        Pair("repo", Str(<<"other">>)), Pair("singular", Bool(FALSE)),
        Pair("enabled", Null)>>)

MetaDescriptors ==
  {None, Malformed, Obj(<<>>), ServiceDescriptor, ExtensionDescriptor,
   MisnamedDescriptor}

RepoPath(overlay, repo) == joinPath(ROOT, <<overlay, "packages", repo>>)

\* Package foo may be in the base path and in the overlay of repository
\* default and in the base path of repository extra, package bar in the
\* base path of extra.
InitMeta ==
  /\ \E foo \in MetaDescriptors :
     \E over \in {None, Obj(<<>>), ServiceDescriptor} :
     \E efoo \in MetaDescriptors \ {Malformed} :
     \E ebar \in {None, ExtensionDescriptor} :
     \E listed \in RepositoryLists :
       /\ cfg = Obj(<<Pair("overlays", Arr(<<Str(<<"o1">>)>>, <<>>)),
                      Pair("packages", Obj(<<>>)),
                      Pair("repositories", listed)>>)
       /\ pkgDirs = IF over = None THEN {} ELSE {RepoPath("o1", "default")}
       /\ pkgFiles =
            [p \in {RepoPath("src", "default"), RepoPath("o1", "default"),
                    RepoPath("src", "extra")} |->
               CASE p = RepoPath("src", "default") ->
                      IF foo = None THEN <<>> ELSE <<<<"foo", foo>>>>
                 [] p = RepoPath("o1", "default") ->
                      IF over = None THEN <<>> ELSE <<<<"foo", over>>>>
                 [] OTHER ->
                      (IF ebar = None THEN <<>> ELSE <<<<"bar", ebar>>>>) \o
                      (IF efoo = None THEN <<>> ELSE <<<<"foo", efoo>>>>)]
  /\ cliRepositories \in RepositoryOptions
  /\ filter \in {"all", "extension"}
  /\ packageConf = <<>>
  /\ repos = <<>> /\ repoPending = {} /\ metaList = None
  /\ metaSettled = "pending" /\ metaResult = None /\ mpc = "idle"
  /\ manifest = <<>>
  /\ NoEnv /\ MergeIdle /\ ResolveIdle /\ NoFiles /\ ReaderIdle
  /\ PkgIdle /\ BuildIdle /\ NotMetaIdle

NextMeta ==
  \/ GetMetadata
  \/ RepositoryDone
  \/ ResolveMetadata
  \/ WriteManifest

SpecMeta == InitMeta /\ [][NextMeta]_vars

----------------------------------------------------------------------------
(* themes.js: readMetadataFrom, getMetadata *)

\* The keys of result, in their order.
Categories == <<"sounds", "icons", "fonts", "styles">>

CategorySet == {Categories[i] : i \in 1..Len(Categories)}

\* whitelist.indexOf(d) >= 0
Whitelisted(whitelist, d) ==
  \E i \in 1..Len(whitelist.items) : whitelist.items[i] = Str(<<d>>)

\* A reader of font themes that filters by the whitelist as the readers of
\* the other categories do.
readFontsWhitelisted(files, whitelist) ==
  Resolved(Arr([i \in 1..Len(SelectSeq(files,
                             LAMBDA f : Whitelisted(whitelist, f[1]))) |->
                  Str(<<SelectSeq(files,
                          LAMBDA f : Whitelisted(whitelist, f[1]))[i][1]>>)],
               <<>>))

\* The then-callback of the fonts glob: the directory name of every
\* style.css found.
readFonts(files, whitelist) ==
  Resolved(Arr([i \in 1..Len(files) |-> Str(<<files[i][1]>>)], <<>>))

\* The promise readMetadataFrom(dir, whitelist, isFont) returns once its glob
\* has answered with the files: for fonts the directory names; for the
\* other categories the parsed metadata.json of the whitelisted directories,
\* rejected when one of them cannot be parsed.
readMetadataFrom(files, whitelist0, isFont) ==
  LET whitelist == OrElse(whitelist0, Arr(<<>>, <<>>))
      kept == SelectSeq(files, LAMBDA f : Whitelisted(whitelist, f[1]))
  IN  IF isFont THEN readFonts(files, whitelist)
      ELSE IF \E i \in 1..Len(kept) : kept[i][2] = Malformed THEN Rejected
      ELSE Resolved(Arr([i \in 1..Len(kept) |-> kept[i][2]], <<>>))

\* othemes.getMetadata(cfg, cli) is called: one readMetadataFrom per
\* category is started, each with its glob.  Without cfg.themes every one of
\* them throws and the call is rejected.
themesCalled ==
  /\ tpc = "idle"
  /\ themeResult' = [n \in CategorySet |-> Arr(<<>>, <<>>)]
  /\ IF IsNullish(GetProp(cfg, "themes"))
       THEN /\ themePending' = {}
            /\ themeSettled' = "rejected"
            /\ tpc' = "done"
       ELSE /\ themePending' = CategorySet
            /\ UNCHANGED themeSettled
            /\ tpc' = "reading"
  /\ UNCHANGED <<themeInputs, themes>>

ThemesGetMetadata ==
  /\ themesCalled
  /\ UNCHANGED <<mergeVars, env, resolveVars, fsVars, readVars, pkgFsVars,
                 pkgVars, returned, standalone, classNames, extensionConf,
                 buildVars, metaInputs, metaVars, notThemes>>

\* The glob of one category answers; the globs answer in any order.  A glob
\* that fails rejects the category's promise and so the call, but the fonts
\* glob has no rejection handler: when it fails no callback runs at all.
ThemeGlobDone ==
  /\ tpc = "reading"
  /\ \E n \in themePending :
       /\ ~(n = "fonts" /\ n \in globFails)
       /\ themePending' = themePending \ {n}
       /\ \E found \in {IF n \in globFails THEN Rejected
                        ELSE readMetadataFrom(themeFiles[n],
                               GetProp(GetProp(cfg, "themes"), n),
                               n = "fonts")} :
            IF found.rejected
              THEN /\ themeSettled' = "rejected"
                   /\ UNCHANGED themeResult
              ELSE /\ themeResult' = [themeResult EXCEPT ![n] = found.meta]
                   /\ UNCHANGED themeSettled
  /\ UNCHANGED <<mergeVars, env, resolveVars, fsVars, readVars, pkgFsVars,
                 pkgVars, buildInputs, buildVars, metaInputs, metaVars,
                 themeInputs, tpc, notThemes>>

\* Every category has resolved: so does the call, with the result.
ThemesResolved ==
  /\ tpc = "reading" /\ themePending = {} /\ themeSettled = "pending"
  /\ themeSettled' = "resolved"
  /\ themes' = themeResult
  /\ tpc' = "done"
  /\ UNCHANGED <<mergeVars, env, resolveVars, fsVars, readVars, pkgFsVars,
                 pkgVars, returned, standalone, classNames, extensionConf,
                 buildVars, metaInputs, metaVars, themeInputs, themePending,
                 themeResult, notThemes>>

----------------------------------------------------------------------------
(* Inputs of the theme metadata *)

ThemeMetadata(d) ==
  Obj(<<Pair("name", Str(<<d>>)), Pair("title", Str(<<"T">>))>>)

\* The theme directories a category may hold, each with its file.
ThemeDirs ==
  {<<>>, <<<<"t1", ThemeMetadata("t1")>>>>,
   <<<<"t1", ThemeMetadata("t1")>>, <<"t2", ThemeMetadata("t2")>>>>,
   <<<<"t1", ThemeMetadata("t1")>>, <<"t2", Malformed>>>>}

\* The values of an entry of cfg.themes.
Whitelists ==
  {Undefined, Arr(<<Str(<<"t1">>)>>, <<>>),
   Arr(<<Str(<<"t2">>), Str(<<"t1">>)>>, <<>>)}

ThemeConfig(whitelist) ==
  Obj(<<Pair("themes",
             Obj([i \in 1..Len(Categories) |-> Pair(Categories[i], whitelist)]))>>)

InitThemes ==
  /\ \E fonts \in ThemeDirs \ {<<<<"t1", ThemeMetadata("t1")>>,
                                 <<"t2", Malformed>>>>} :
     \E icons \in ThemeDirs : \E sounds \in ThemeDirs :
       themeFiles = [n \in CategorySet |->
                       CASE n = "fonts" -> fonts
                         [] n = "icons" -> icons
                         [] n = "sounds" -> sounds
                         [] OTHER -> <<<<"t2", ThemeMetadata("t2")>>>>]
  /\ \E whitelist \in Whitelists : cfg = ThemeConfig(whitelist)
  /\ globFails \in {{}, {"fonts"}, {"icons"}, {"styles", "fonts"}}
  /\ themePending = {} /\ themeResult = None /\ themeSettled = "pending"
  /\ tpc = "idle"
  /\ NoEnv /\ MergeIdle /\ ResolveIdle /\ NoFiles /\ ReaderIdle
  /\ NoPackages /\ PkgIdle /\ BuildIdle /\ MetaIdle /\ NotThemesIdle

NextThemes ==
  \/ ThemesGetMetadata
  \/ ThemeGlobDone
  \/ ThemesResolved

SpecThemes == InitThemes /\ [][NextThemes]_vars

----------------------------------------------------------------------------
(* configuration.js: buildClientConfiguration, buildServerConfiguration *)

\* Object.assign({}, section) copies the properties, not what they refer to:
\* a property of the copy that holds a mapping or an array of the section is
\* Shared, the very object the tree holds at the same key.
Shared == [t |-> "shared"]

shallowCopy(section) ==
  IF section.t # "object" THEN Obj(<<>>)
  ELSE Obj([i \in 1..Len(section.pairs) |->
              Pair(section.pairs[i].k,
                   IF section.pairs[i].v.t \in {"object", "array"}
                     THEN Shared ELSE section.pairs[i].v)])

\* settings[k], read through to the tree where the property is shared.
settingsProp(settings, section, k) ==
  IF GetProp(settings, k) = Shared THEN GetProp(section, k)
  ELSE GetProp(settings, k)

\* The settings with every shared property read through, as JSON.stringify
\* sees them.
settingsValue(settings, section) ==
  Obj([i \in 1..Len(settings.pairs) |->
         Pair(settings.pairs[i].k,
              settingsProp(settings, section, settings.pairs[i].k))])

RECURSIVE putAt(_, _, _)
\* The tree with the object at the key path replaced by its new state.
putAt(v, path, new) ==
  IF path = <<>> THEN new
  ELSE Obj(PutPair(v.pairs, Head(path),
                   putAt(GetProp(v, Head(path)), Tail(path), new)))

\* The builder's settings and the tree, which an assignment through a shared
\* property changes.
Heap(settings, c) == [settings |-> settings, cfg |-> c, threw |-> FALSE]
HeapThrown(h) == [settings |-> h.settings, cfg |-> h.cfg, threw |-> TRUE]

\* settings[k][p] = v for the settings copied from cfg[section].
setNested(h0, section, k, p, v) ==
  TheOne({
    IF h.threw THEN h
    ELSE TheOne({
           IF r.threw THEN HeapThrown(h)
           ELSE IF GetProp(h.settings, k) = Shared
             THEN Heap(h.settings, putAt(h.cfg, <<section, k>>, r.val))
           ELSE Heap(Obj(PutPair(h.settings.pairs, k, r.val)), h.cfg) :
           r \in {SetProp(settingsProp(h.settings, GetProp(h.cfg, section), k),
                          p, v)}}) :
    h \in {h0}})

\* settings[k] = v
setOwn(h0, k, v) ==
  TheOne({IF h.threw THEN h
          ELSE Heap(Obj(PutPair(h.settings.pairs, k, v)), h.cfg) : h \in {h0}})

\* array.concat(x)
concat(arr, x) ==
  IF x.t = "array" THEN Arr(arr.items \o x.items, <<>>)
  ELSE Arr(Append(arr.items, x), <<>>)

RECURSIVE makedictFrom(_, _, _)
makedictFrom(items, i, acc) ==
  IF i > Len(items) THEN Obj(acc)
  ELSE makedictFrom(items, i + 1,
         PutPair(acc, GetProp(items[i], "name").s[1], GetProp(items[i], "title")))

\* makedict(list, (iter) => [iter.name, iter.title])
makedict(items) == makedictFrom(items, 1, <<>>)

\* Object.keys(settings.Preloads || {}).map((k) => settings.Preloads[k])
preloadsOf(v) ==
  IF v.t = "object" THEN Arr([i \in 1..Len(v.pairs) |-> v.pairs[i].v], <<>>)
  ELSE Arr(<<>>, <<>>)

\* The executor of buildClientConfiguration: the settings are copied from
\* cfg.client, AutoStart is made a list and, with --standalone, the three
\* Connection properties are set.  Then the theme metadata is asked for.
clientStart(c, alone) ==
  LET section == GetProp(c, "client")
      h0 == Heap(shallowCopy(section), c)
      h1 == IF settingsProp(h0.settings, section, "AutoStart").t = "array"
              THEN h0 ELSE setOwn(h0, "AutoStart", Arr(<<>>, <<>>))
      sa == Str(<<"standalone">>)
  IN  IF alone
        THEN setNested(setNested(setNested(h1, "client", "Connection",
                                           "Connection", sa),
                                 "client", "Connection", "Authenticator", sa),
                       "client", "Connection", "Storage", sa)
        ELSE h1

\* othemes.getMetadata(...).then: the fonts found are put before the
\* configured ones in settings.Fonts.list, and the theme lists are set.
clientThemes(h, found) ==
  LET fonts == settingsProp(h.settings, GetProp(h.cfg, "client"), "Fonts")
  IN  IF IsNullish(fonts) THEN HeapThrown(h)
      ELSE setOwn(setOwn(setOwn(setNested(h, "client", "Fonts", "list",
                                          concat(found.fonts,
                                                 GetProp(fonts, "list"))),
                                "Styles", found.styles),
                         "Sounds", makedict(found.sounds.items)),
                  "Icons", makedict(found.icons.items))

\* A client builder that takes the server section of the tree for its MIME
\* table; the claims about the two builders running together have to tell
\* it from clientPackages.
clientPackagesServerTable(h, names, preloads) ==
  setOwn(setOwn(setOwn(h, "AutoStart",
                       concat(settingsProp(h.settings, GetProp(h.cfg, "client"),
                                           "AutoStart"),
                              Arr(names, <<>>))),
                "MIME", GetProp(h.cfg, "server")),
         "Preloads", preloads)

\* opkg.getMetadata(...).then: the class names of the autostarted packages,
\* the MIME table and the preloads are set.
clientPackages(h, names, preloads) ==
  setOwn(setOwn(setOwn(h, "AutoStart",
                       concat(settingsProp(h.settings, GetProp(h.cfg, "client"),
                                           "AutoStart"),
                              Arr(names, <<>>))),
                "MIME", GetProp(h.cfg, "mime")),
         "Preloads", preloads)

\* One key of a fragment merged into the server settings by mergeObject: a
\* mapping is merged into the object the settings hold at the key, which is
\* the tree's own object where the property is shared.
mergeSettingsKey(h, p, v2) ==
  IF GetProp(h.settings, p) = Shared /\ v2.t = "object"
    THEN Heap(h.settings,
              putAt(h.cfg, <<"server", p>>,
                    mergeJSON(GetProp(GetProp(h.cfg, "server"), p), v2).val))
    ELSE Heap(mergeKey(h.settings, p, v2).val, h.cfg)

RECURSIVE mergeSettings(_, _, _)
mergeSettings(h0, pairs, i) ==
  IF i > Len(pairs) THEN h0
  ELSE TheOne({mergeSettings(mergeSettingsKey(h, pairs[i].k, pairs[i].v),
                             pairs, i + 1) : h \in {h0}})

RECURSIVE mergeExtensions(_, _, _)
\* The conf fragments of the extensions, in order; one that cannot be read
\* is warned about and skipped.
mergeExtensions(h0, fragments, i) ==
  IF i > Len(fragments) THEN h0
  ELSE TheOne({mergeExtensions(
                 IF fragments[i] = Malformed THEN h
                 ELSE mergeSettings(h, fragments[i].pairs, 1),
                 fragments, i + 1) : h \in {h0}})

\* The last assignments of buildServerConfiguration, the one to
\* settings.vfs through to the tree where vfs is shared.
serverSettings(h) ==
  LET mime == GetProp(h.cfg, "mime")
      vfs == Lookup(h.cfg, <<"client", "VFS">>)
  IN  IF IsNullish(mime) \/ IsNullish(vfs)
        THEN HeapThrown(setOwn(h, "overlays", GetProp(h.cfg, "overlays")))
        ELSE setNested(setOwn(setOwn(setOwn(h, "overlays",
                                            GetProp(h.cfg, "overlays")),
                                     "mimes", GetProp(mime, "mapping")),
                              "broadway", GetProp(h.cfg, "broadway")),
                       "server", "vfs", "maxuploadsize",
                       GetProp(vfs, "MaxUploadSize"))

\* opkg.getMetadata(...).then of buildServerConfiguration.
serverPackages(h0, fragments) ==
  TheOne({serverSettings(h) : h \in {mergeExtensions(h0, fragments, 1)}})

MaxRuns == 2

\* The executor of buildClientConfiguration up to the call of
\* othemes.getMetadata.
clientCalled ==
  /\ client.pc \in {"idle", "done"}
  /\ Len(distSettings) < MaxRuns
  /\ \E h \in {clientStart(cfg, standalone)} :
         /\ cfg' = h.cfg
         /\ client' = IF h.threw
                        THEN [client EXCEPT !.pc = "rejected"]
                        ELSE [pc |-> "themes", settings |-> h.settings,
                              preloads |-> preloadsOf(
                                settingsProp(h.settings, GetProp(cfg, "client"),
                                             "Preloads")),
                              data |-> <<>>]

BuildClientConfiguration ==
  /\ clientCalled
  /\ UNCHANGED <<mergeVars, env, resolveVars, fsVars, readerVars, pkgFsVars,
                 pkgVars, laterVars, buildInputs, server, distSettings, settingsJson>>

\* othemes.getMetadata(...).then of buildClientConfiguration up to the
\* call of opkg.getMetadata.
clientThemesThen ==
  /\ client.pc = "themes"
  /\ \E h \in {clientThemes(Heap(client.settings, cfg), themes)} :
         /\ cfg' = h.cfg
         /\ client' = IF h.threw
                        THEN [client EXCEPT !.pc = "rejected"]
                        ELSE [client EXCEPT !.pc = "packages",
                                            !.settings = h.settings]

ClientThemes ==
  /\ clientThemesThen
  /\ UNCHANGED <<mergeVars, env, resolveVars, fsVars, readerVars, pkgFsVars,
                 pkgVars, laterVars, buildInputs, server, distSettings, settingsJson>>

\* A file system on which no directory can be made; the claims about the
\* destination directories have to tell it from mkdir.
mkdirNever(dirs, d, ok) == dirs

\* fs.mkdir(d): a missing directory is made unless the disk refuses.
mkdir(dirs, d, ok) ==
  IF dirs[d] = "missing" /\ ok THEN [dirs EXCEPT ![d] = "created"] ELSE dirs

\* fs.writeFile to a file of directory d succeeds.
CanWrite(d) == outDirs[d] # "missing" /\ writable

\* opkg.getMetadata(...).then of buildClientConfiguration, given the class
\* names of the packages found: the settings are completed, the template is
\* read, which throws when it is missing, the text is made and fs.mkdir of
\* the destination directory is started.
clientPackagesThen(names) ==
  /\ client.pc = "packages"
  /\ \E h \in {clientPackages(Heap(client.settings, cfg), names,
                              client.preloads)} :
         client' = IF template
                     THEN [client EXCEPT
                             !.pc = "mkdir",
                             !.settings = h.settings,
                             !.data = stringify(settingsValue(h.settings,
                                        GetProp(cfg, "client")))]
                     ELSE [client EXCEPT !.pc = "rejected",
                                         !.settings = h.settings]

ClientPackages ==
  /\ clientPackagesThen(classNames)
  /\ UNCHANGED <<mergeVars, env, resolveVars, fsVars, readVars, pkgFsVars,
                 pkgVars, laterVars, buildInputs, server, distSettings, settingsJson>>

\* fs.mkdir(path.dirname(dest)) has answered: whether it made the
\* directory or failed, cont starts the write.
ClientMkdir ==
  /\ client.pc = "mkdir"
  /\ outDirs' = mkdir(outDirs, "dist", writable)
  /\ client' = [client EXCEPT !.pc = "writing"]
  /\ UNCHANGED <<mergeVars, env, resolveVars, fsVars, readVars, pkgFsVars,
                 pkgVars, metaInputs, metaVars, themeInputs, themeVars,
                 template, writable, runVars, buildInputs, server, distSettings,
                 settingsJson>>

\* fs.writeFile(dest, data) of dist/settings.js has answered.
ClientWritten ==
  /\ client.pc = "writing"
  /\ IF CanWrite("dist")
       THEN /\ distSettings' = Append(distSettings, client.data)
            /\ client' = [client EXCEPT !.pc = "done"]
       ELSE /\ client' = [client EXCEPT !.pc = "rejected"]
            /\ UNCHANGED distSettings
  /\ UNCHANGED <<mergeVars, env, resolveVars, fsVars, readVars, pkgFsVars,
                 pkgVars, laterVars, buildInputs, server, settingsJson>>

BuildServerConfiguration ==
  /\ server.pc \in {"idle", "done"}
  /\ Len(settingsJson) < MaxRuns
  /\ server' = [pc |-> "packages",
                settings |-> shallowCopy(GetProp(cfg, "server")),
                data |-> <<>>]
  /\ UNCHANGED <<mergeVars, env, resolveVars, fsVars, readVars, pkgFsVars,
                 pkgVars, laterVars, buildInputs, client, distSettings, settingsJson>>

\* The extensions are known: their conf fragments are merged, the last
\* settings are set, the text is made and the write started.
ServerPackages ==
  /\ server.pc = "packages"
  /\ \E h \in {serverPackages(Heap(server.settings, cfg), extensionConf)} :
         /\ cfg' = h.cfg
         /\ server' = IF h.threw
                        THEN [server EXCEPT !.pc = "rejected"]
                        ELSE [server EXCEPT
                                !.pc = "writing",
                                !.settings = h.settings,
                                !.data = stringify(settingsValue(h.settings,
                                           GetProp(h.cfg, "server")))]
  /\ UNCHANGED <<mergeVars, env, resolveVars, fsVars, readerVars, pkgFsVars,
                 pkgVars, laterVars, buildInputs, client, distSettings, settingsJson>>

\* fs.writeFile(dest, data) of src/server/settings.json has answered.
ServerWritten ==
  /\ server.pc = "writing"
  /\ IF CanWrite("server")
       THEN /\ settingsJson' = Append(settingsJson, server.data)
            /\ server' = [server EXCEPT !.pc = "done"]
       ELSE /\ server' = [server EXCEPT !.pc = "rejected"]
            /\ UNCHANGED settingsJson
  /\ UNCHANGED <<mergeVars, env, resolveVars, fsVars, readVars, pkgFsVars,
                 pkgVars, laterVars, buildInputs, client, distSettings>>

----------------------------------------------------------------------------
(* Inputs of the builders *)

\* What othemes.getMetadata answers.
ThemeSets ==
  {[fonts |-> Arr(<<>>, <<>>), styles |-> Arr(<<>>, <<>>),
    sounds |-> Arr(<<>>, <<>>), icons |-> Arr(<<>>, <<>>)],
   [fonts |-> Arr(<<Str(<<"f">>)>>, <<>>), styles |-> Arr(<<>>, <<>>),
    sounds |-> Arr(<<Obj(<<Pair("name", Str(<<"s">>)),
                           Pair("title", Str(<<"S">>))>>)>>, <<>>),
    icons |-> Arr(<<>>, <<>>)]}

\* The client section of the tree.
ClientSections ==
  {Obj(conn \o <<Pair("Fonts", Obj(<<Pair("list", Arr(<<Str(<<"a">>)>>, <<>>))>>)),
                 Pair("VFS", Obj(<<Pair("MaxUploadSize", Num(1))>>))>> \o auto) :
     conn \in {<<>>, <<Pair("Connection",
                            Obj(<<Pair("Connection", Str(<<"ws">>))>>))>>},
     auto \in {<<>>, <<Pair("AutoStart", Arr(<<Str(<<"x">>)>>, <<>>))>>}}

\* The server section of the tree.
ServerSections ==
  {Obj(<<Pair("vfs", v), Pair("ext", Obj(<<Pair("x", Num(1))>>))>>) :
     v \in {Obj(<<>>), Obj(<<Pair("maxuploadsize", Num(1))>>)}}

\* The conf fragments of the extension packages.
ExtensionFragments ==
  {<<>>, <<Malformed>>,
   <<Obj(<<Pair("ext", Obj(<<Pair("y", Num(2))>>))>>)>>}

InitBuild ==
  /\ \E c \in ClientSections : \E sv \in ServerSections :
       cfg = Obj(<<Pair("client", c), Pair("server", sv),
                   Pair("mime", Obj(<<Pair("mapping", Obj(<<>>))>>)),
                   Pair("overlays", Arr(<<>>, <<>>))>>)
  /\ returned = cfg
  /\ standalone \in BOOLEAN
  /\ themes \in ThemeSets
  /\ classNames \in {<<>>, <<Str(<<"c">>)>>}
  /\ extensionConf \in ExtensionFragments
  /\ client = [pc |-> "idle", settings |-> None, preloads |-> None,
               data |-> <<>>]
  /\ server = [pc |-> "idle", settings |-> None, data |-> <<>>]
  /\ distSettings = <<>> /\ settingsJson = <<>>
  /\ NoEnv /\ MergeIdle /\ ResolveIdle /\ NoFiles /\ ReaderIdle
  /\ NoPackages /\ PkgIdle /\ LaterIdle

NextBuild ==
  \/ BuildClientConfiguration
  \/ ClientThemes
  \/ ClientPackages
  \/ ClientMkdir
  \/ ClientWritten
  \/ BuildServerConfiguration
  \/ ServerPackages
  \/ ServerWritten

SpecBuild == InitBuild /\ [][NextBuild]_vars

----------------------------------------------------------------------------
(* Inputs of the builders' output *)

\* One tree, and every state of the template, of the two destination
\* directories and of the disk.
InitOut ==
  /\ cfg = Obj(<<Pair("client",
                      Obj(<<Pair("Fonts",
                                 Obj(<<Pair("list", Arr(<<>>, <<>>))>>)),
                            Pair("VFS",
                                 Obj(<<Pair("MaxUploadSize", Num(1))>>))>>)),
                 Pair("server", Obj(<<Pair("vfs", Obj(<<>>))>>)),
                 Pair("mime", Obj(<<Pair("mapping", Obj(<<>>))>>)),
                 Pair("overlays", Arr(<<>>, <<>>))>>)
  /\ returned = cfg
  /\ standalone = FALSE
  /\ themes \in ThemeSets
  /\ classNames = <<>>
  /\ extensionConf = <<>>
  /\ client = [pc |-> "idle", settings |-> None, preloads |-> None,
               data |-> <<>>]
  /\ server = [pc |-> "idle", settings |-> None, data |-> <<>>]
  /\ distSettings = <<>> /\ settingsJson = <<>>
  /\ template \in BOOLEAN /\ writable \in BOOLEAN /\ RunIdle
  /\ outDirs \in [{"dist", "server"} -> {"missing", "present"}]
  /\ NoEnv /\ MergeIdle /\ ResolveIdle /\ NoFiles /\ ReaderIdle
  /\ NoPackages /\ PkgIdle /\ MetaIdle /\ ThemesIdle

\* Every callback that can run does run in the end.
SpecOut == InitOut /\ [][NextBuild]_vars /\ WF_vars(NextBuild)

----------------------------------------------------------------------------
(* configuration.js: buildClientConfiguration with the themes and the
   packages it asks for *)

\* The executor of buildClientConfiguration: the settings are copied and
\* othemes.getMetadata is called.
ClientGetThemes ==
  /\ filter = "autostart"
  /\ clientCalled
  /\ IF client'.pc = "rejected"
       THEN UNCHANGED <<themeInputs, themeVars, themes>>
       ELSE themesCalled
  /\ UNCHANGED <<mergeVars, env, resolveVars, fsVars, readerVars, pkgFsVars,
                 pkgVars, metaInputs, metaVars, outVars, runVars, returned,
                 standalone,
                 classNames, extensionConf, server, distSettings,
                 settingsJson>>

\* The themes' getMetadata has rejected: so does the builder.
ClientThemesFailed ==
  /\ client.pc = "themes" /\ themeSettled = "rejected"
  /\ client' = [client EXCEPT !.pc = "rejected"]
  /\ UNCHANGED <<mergeVars, env, resolveVars, fsVars, readVars, pkgFsVars,
                 pkgVars, laterVars, buildInputs, server, distSettings,
                 settingsJson>>

\* The themes' getMetadata has resolved: the theme settings are set and
\* opkg.getMetadata is called with the autostart filter.
ClientThemesGetMetadata ==
  /\ themeSettled = "resolved"
  /\ clientThemesThen
  /\ IF client'.pc = "rejected"
       THEN UNCHANGED <<metaInputs, metaVars>>
       ELSE getMetadataCalled
  /\ UNCHANGED <<mergeVars, env, resolveVars, fsVars, readerVars, pkgFsVars,
                 pkgVars, themeInputs, themeVars, outVars, runVars, buildInputs,
                 server,
                 distSettings, settingsJson>>

\* The packages' getMetadata has rejected: so does the builder.
ClientMetadataFailed ==
  /\ client.pc = "packages" /\ metaSettled = "rejected"
  /\ client' = [client EXCEPT !.pc = "rejected"]
  /\ UNCHANGED <<mergeVars, env, resolveVars, fsVars, readVars, pkgFsVars,
                 pkgVars, laterVars, buildInputs, server, distSettings,
                 settingsJson>>

\* Object.keys(list).map((k) => list[k].className)
classNamesOf(found) ==
  [i \in 1..Len(found.pairs) |-> GetProp(found.pairs[i].v, "className")]

\* The packages' getMetadata has resolved with the autostarted packages.
ClientPackagesFound ==
  /\ mpc = "done" /\ metaSettled = "resolved"
  /\ clientPackagesThen(classNamesOf(metaResult))
  /\ UNCHANGED <<mergeVars, env, resolveVars, fsVars, readVars, pkgFsVars,
                 pkgVars, laterVars, buildInputs, server, distSettings,
                 settingsJson>>

----------------------------------------------------------------------------
(* Inputs of buildClientConfiguration with themes and packages *)

AutoStartDescriptor ==
  Obj(<<Pair("autostart", Bool(TRUE)), Pair("className", Str(<<"c">>))>>)

\* Theme directories with a file that may be broken, one package that may
\* be broken, globs that may fail and a template that may be missing.
InitConfig ==
  /\ \E whitelist \in {Arr(<<Str(<<"t1">>)>>, <<>>)} :
       cfg = Obj(<<Pair("client",
                        Obj(<<Pair("Fonts",
                                   Obj(<<Pair("list", Arr(<<>>, <<>>))>>)),
                              Pair("VFS",
                                   Obj(<<Pair("MaxUploadSize", Num(1))>>))>>)),
                   Pair("mime", Obj(<<Pair("mapping", Obj(<<>>))>>)),
                   Pair("overlays", Arr(<<>>, <<>>)),
                   Pair("packages", Obj(<<>>)),
                   Pair("repositories", Arr(<<Str(<<"default">>)>>, <<>>)),
                   Pair("themes",
                        Obj([i \in 1..Len(Categories) |->
                               Pair(Categories[i], whitelist)]))>>)
  /\ returned = cfg
  /\ standalone = FALSE /\ themes = None
  /\ classNames = <<>> /\ extensionConf = <<>>
  /\ client = [pc |-> "idle", settings |-> None, preloads |-> None,
               data |-> <<>>]
  /\ server = [pc |-> "idle", settings |-> None, data |-> <<>>]
  /\ distSettings = <<>> /\ settingsJson = <<>>
  /\ \E icons \in {<<<<"t1", ThemeMetadata("t1")>>>>, <<<<"t1", Malformed>>>>} :
       themeFiles = [n \in CategorySet |->
                       IF n = "icons" THEN icons
                       ELSE <<<<"t1", ThemeMetadata("t1")>>>>]
  /\ globFails \in {{}, {"fonts"}, {"sounds"}, {"styles", "fonts"}}
  /\ themePending = {} /\ themeResult = None /\ themeSettled = "pending"
  /\ tpc = "idle"
  /\ \E foo \in {None, Malformed, Obj(<<>>), AutoStartDescriptor} :
       pkgFiles = [p \in {RepoPath("src", "default")} |->
                     IF foo = None THEN <<>> ELSE <<<<"foo", foo>>>>]
  /\ pkgDirs = {}
  /\ cliRepositories = <<>> /\ filter = "autostart" /\ packageConf = <<>>
  /\ repos = <<>> /\ repoPending = {} /\ metaList = None
  /\ metaSettled = "pending" /\ metaResult = None /\ mpc = "idle"
  /\ manifest = <<>>
  /\ template \in BOOLEAN /\ writable \in BOOLEAN /\ RunIdle
  /\ outDirs \in [{"dist", "server"} -> {"missing", "present"}]
  /\ NoEnv /\ MergeIdle /\ ResolveIdle /\ NoFiles /\ ReaderIdle /\ PkgIdle

NextConfig ==
  \/ ClientGetThemes
  \/ ThemeGlobDone
  \/ ThemesResolved
  \/ ClientThemesFailed
  \/ ClientThemesGetMetadata
  \/ RepositoryDone
  \/ ResolveMetadata
  \/ ClientMetadataFailed
  \/ ClientPackagesFound
  \/ ClientMkdir
  \/ ClientWritten

\* Every callback that can run does run in the end.
SpecConfig == InitConfig /\ [][NextConfig]_vars /\ WF_vars(NextConfig)

----------------------------------------------------------------------------
(* configuration.js: buildServerConfiguration with the packages it asks
   getMetadata for *)

\* path.join(src, 'packages', extensions[e].path, c)
confPath(pkg, c) ==
  joinPath(ROOT, <<"src", "packages">>) \o <<"/">> \o GetProp(pkg, "path").s
    \o <<"/">> \o c.s

\* fs.readJsonSync(p) in the try block: Malformed when the file is missing
\* or cannot be parsed.
readConf(p) == IF p \in DOMAIN packageConf THEN packageConf[p] ELSE Malformed

RECURSIVE confFragments(_, _)
\* The fragments the two forEach loops read, in their order: for each
\* package of the mapping, in the order of its keys, the files its conf
\* array names.
confFragments(extensions, i) ==
  IF i > Len(extensions.pairs) THEN <<>>
  ELSE LET conf == GetProp(extensions.pairs[i].v, "conf")
       IN  (IF Truthy(conf) /\ conf.t = "array"
              THEN [n \in 1..Len(conf.items) |->
                      readConf(confPath(extensions.pairs[i].v, conf.items[n]))]
              ELSE <<>>)
           \o confFragments(extensions, i + 1)

\* The executor of buildServerConfiguration: the settings are copied from
\* cfg.server and getMetadata is called with the extension filter.
ServerGetMetadata ==
  /\ server.pc = "idle" /\ filter = "extension"
  /\ server' = [pc |-> "packages",
                settings |-> shallowCopy(GetProp(cfg, "server")),
                data |-> <<>>]
  /\ getMetadataCalled
  /\ UNCHANGED <<mergeVars, env, resolveVars, fsVars, readVars, pkgFsVars,
                 pkgVars, buildInputs, client, distSettings, settingsJson, notMeta>>

\* getMetadata has resolved: the conf fragments of the packages it answers
\* are read and merged, the last settings are set, the text is made and the
\* write started.
ServerExtensions ==
  /\ server.pc = "packages" /\ mpc = "done" /\ metaSettled = "resolved"
  /\ \E h \in {serverPackages(Heap(server.settings, cfg),
                              confFragments(metaResult, 1))} :
         /\ cfg' = h.cfg
         /\ server' = IF h.threw
                        THEN [server EXCEPT !.pc = "rejected"]
                        ELSE [server EXCEPT
                                !.pc = "writing",
                                !.settings = h.settings,
                                !.data = stringify(settingsValue(h.settings,
                                           GetProp(h.cfg, "server")))]
  /\ UNCHANGED <<mergeVars, env, resolveVars, fsVars, readerVars, pkgFsVars,
                 pkgVars, laterVars, buildInputs, client, distSettings,
                 settingsJson>>

\* getMetadata has rejected: so does the builder.
ServerMetadataFailed ==
  /\ server.pc = "packages" /\ metaSettled = "rejected"
  /\ server' = [server EXCEPT !.pc = "rejected"]
  /\ UNCHANGED <<mergeVars, env, resolveVars, fsVars, readVars, pkgFsVars,
                 pkgVars, laterVars, buildInputs, client, distSettings,
                 settingsJson>>

----------------------------------------------------------------------------
(* Inputs of buildServerConfiguration with packages *)

ConfName == Str(<<"c", ".", "json">>)

\* What the metadata.json of a package of the model may hold.
ExtensionDescriptors ==
  {None, Malformed,
   Obj(<<Pair("type", Str(<<"extension">>)),
         Pair("conf", Arr(<<ConfName>>, <<>>))>>),
   Obj(<<Pair("type", Str(<<"extension">>)), Pair("conf", ConfName)>>),
   Obj(<<Pair("type", Str(<<"service">>)),
         Pair("conf", Arr(<<ConfName>>, <<>>))>>)}

\* What the conf fragment file of a package may hold; None for no file.
ConfFragments ==
  {None, Malformed,
   Obj(<<Pair("k", Num(1))>>),
   Obj(<<Pair("k", Num(2)), Pair("m", Arr(<<Num(2)>>, <<>>))>>),
   Obj(<<Pair("k", Obj(<<Pair("x", Num(1))>>))>>),
   Obj(<<Pair("k", Obj(<<Pair("x", Num(2)), Pair("y", Num(2))>>))>>)}

\* The values of cfg.server.
ExtServerSections ==
  {Obj(<<Pair("vfs", Obj(<<>>))>>),
   Obj(<<Pair("vfs", Obj(<<>>)), Pair("k", Num(0))>>),
   Obj(<<Pair("vfs", Obj(<<>>)), Pair("k", Obj(<<Pair("x", Num(0))>>))>>)}

ConfFile(name) ==
  joinPath(ROOT, <<"src", "packages", "default", name>>) \o <<"/">>
    \o ConfName.s

\* Packages bar and foo of repository default, each with or without a
\* metadata file and a conf fragment file.
InitExt ==
  /\ \E bar \in ExtensionDescriptors \ {None} :
     \E foo \in ExtensionDescriptors :
     \E cbar \in ConfFragments : \E cfoo \in ConfFragments :
     \E sv \in ExtServerSections :
       /\ cfg = Obj(<<Pair("overlays", Arr(<<>>, <<>>)),
                      Pair("packages", Obj(<<>>)),
                      Pair("repositories", Arr(<<Str(<<"default">>)>>, <<>>)),
                      Pair("server", sv),
                      Pair("client",
                           Obj(<<Pair("VFS",
                                      Obj(<<Pair("MaxUploadSize", Num(1))>>))>>)),
                      Pair("mime", Obj(<<Pair("mapping", Obj(<<>>))>>))>>)
       /\ pkgDirs = {}
       /\ pkgFiles =
            [p \in {RepoPath("src", "default")} |->
               <<<<"bar", bar>>>> \o
               (IF foo = None THEN <<>> ELSE <<<<"foo", foo>>>>)]
       /\ packageConf =
            [p \in {ConfFile(n) : n \in {m \in {"bar", "foo"} :
                      (IF m = "bar" THEN cbar ELSE cfoo) # None}} |->
               IF p = ConfFile("bar") THEN cbar ELSE cfoo]
  /\ cliRepositories = <<>>
  /\ filter = "extension"
  /\ repos = <<>> /\ repoPending = {} /\ metaList = None
  /\ metaSettled = "pending" /\ metaResult = None /\ mpc = "idle"
  /\ manifest = <<>>
  /\ NoEnv /\ MergeIdle /\ ResolveIdle /\ NoFiles /\ ReaderIdle
  /\ PkgIdle /\ NotMetaIdle
  /\ returned = None /\ standalone = FALSE /\ themes = None
  /\ classNames = <<>> /\ extensionConf = <<>>
  /\ client = [pc |-> "idle", settings |-> None, preloads |-> None,
               data |-> <<>>]
  /\ server = [pc |-> "idle", settings |-> None, data |-> <<>>]
  /\ distSettings = <<>> /\ settingsJson = <<>>

NextExt ==
  \/ ServerGetMetadata
  \/ RepositoryDone
  \/ ResolveMetadata
  \/ ServerExtensions
  \/ ServerMetadataFailed
  \/ ServerWritten

SpecExt == InitExt /\ [][NextExt]_vars

----------------------------------------------------------------------------
(* configuration.js: setConfigPath, setConfiguration, addConfiguration,
   removeConfiguration, addMountpoint *)

\* cli.option(k, defaultValue) of the wrapper the tasks get.
option(opt, k, defaultValue) ==
  IF opt[k] = Undefined THEN defaultValue ELSE opt[k]

\* A file system operation made by a task.
Io(op, file) == [op |-> op, file |-> file]

\* What a function of configuration.js leaves behind: the operations made so
\* far, the sjc.setJSON results written, whether its promise is rejected and
\* the value it settles with.
Settled(st, rejected, value) ==
  [io |-> st.io, custom |-> st.custom, rejected |-> rejected, value |-> value]

confDir == joinPath(ROOT, <<"src", "conf">>)

\* setConfigPath: the file is read, sjc.setJSON makes the new contents and
\* the file is written; an exception of either is caught and logged, and the
\* value is returned whatever happened.  `ok` tells whether fs.writeFileSync
\* succeeds.
setConfigPath(st, key, value, isTree, outputFile, guess, ok) ==
  LET cfgPath == IF Truthy(outputFile)
                   THEN joinPath(confDir, <<outputFile.s[1]>>)
                   ELSE joinPath(confDir, <<"900-custom.json">>)
      call == [file |-> cfgPath,
               key |-> IF isTree THEN Null ELSE key,
               value |-> value,
               guess |-> guess = Undefined \/ guess = Bool(TRUE)]
  IN  Settled([io |-> st.io \o <<Io("read", cfgPath), Io("write", cfgPath)>>,
               custom |-> IF ok THEN Append(st.custom, call) ELSE st.custom],
              FALSE, value)

RECURSIVE getNewTree(_, _)
\* getNewTree(k, v) on the segments of a key: one mapping inside the other,
\* the value under the last segment.  A segment is one chunk here.
getNewTree(queue, v) ==
  IF queue = <<>> THEN Obj(<<>>)
  ELSE IF Len(queue) = 1 THEN Obj(<<Pair(Head(queue)[1], v)>>)
  ELSE Obj(<<Pair(Head(queue)[1], getNewTree(Tail(queue), v))>>)

\* setConfiguration(key, value, importFile, outputFile).  Reading an import
\* file that is missing or is no JSON throws.
setConfiguration(st, key0, value, importFile, outputFile, ok) ==
  LET key == IF Truthy(key0) THEN key0.s ELSE <<>>
  IN  IF Truthy(importFile)
        THEN LET rd == [st EXCEPT !.io = Append(@, Io("read", importFile.s))]
             IN  IF disk.import \in {None, Malformed}
                   THEN Settled(rd, TRUE, Str(<<"Error">>))
                   ELSE setConfigPath(
                          rd, Null,
                          IF Len(key) > 0
                            THEN getNewTree(splitDots(key, <<>>), disk.import)
                            ELSE disk.import,
                          TRUE, Undefined, Undefined, ok)
      ELSE IF value = Undefined
        THEN Settled(st, TRUE, Str(<<"No value given">>))
      ELSE setConfigPath(st, Str(key), value, FALSE, outputFile, Undefined, ok)

\* result.indexOf(value) on a list.
indexOf(items, value) ==
  IF \E i \in 1..Len(items) : items[i] = value
    THEN CHOOSE i \in 1..Len(items) :
           items[i] = value /\ \A j \in 1..(i - 1) : items[j] # value
    ELSE 0

\* The entry a query names; undefined and null give way to an empty
\* mapping when a key is given and to an empty list otherwise.
entryOf(config, query, key) ==
  LET found == getConfiguration(config, query.s)
  IN  IF found \in {Undefined, Null}
        THEN (IF key # Undefined THEN Obj(<<>>) ELSE Arr(<<>>, <<>>))
        ELSE found

\* addConfiguration(config, query, key, value)
addConfiguration(st, config, query, key, value, ok) ==
  LET entry == entryOf(config, query, key)
  IN  IF entry.t \notin {"object", "array"}
        THEN Settled(st, TRUE, Str(<<"Invalid entry">>))
      ELSE IF entry.t = "array"
        THEN setConfigPath(
               st, query,
               IF indexOf(entry.items, value) = 0
                 THEN Arr(Append(entry.items, value), entry.props)
               ELSE IF key # Undefined
                 THEN Arr(entry.items, PutPair(entry.props, key.s[1], value))
               ELSE entry,
               FALSE, Null, Bool(FALSE), ok)
      ELSE setConfigPath(
             st, query,
             Obj(PutPair(entry.pairs,
                         IF key = Undefined THEN "undefined" ELSE key.s[1],
                         value)),
             FALSE, Null, Bool(FALSE), ok)

\* list.splice(idx, 1)
splice(items, idx) ==
  [i \in 1..(Len(items) - 1) |-> IF i < idx THEN items[i] ELSE items[i + 1]]

\* removeConfiguration(config, query, key, value); a key that is a number
\* is the index to remove, counted from 0, and is never negative here.
removeConfiguration(st, config, query, key, value, ok) ==
  LET entry == getConfiguration(config, query.s)
      idx == IF key.t = "number" THEN key.n + 1
             ELSE indexOf(entry.items, value)
  IN  IF entry.t = "array"
        THEN setConfigPath(
               st, query,
               IF idx # 0 /\ idx <= Len(entry.items)
                 THEN Arr(splice(entry.items, idx), entry.props)
                 ELSE entry,
               FALSE, Null, Bool(FALSE), ok)
      ELSE IF entry.t = "object"
        THEN setConfigPath(
               st, query,
               IF key.t = "string" /\ GetProp(entry, key.s[1]) # Undefined
                 THEN Obj(SelectSeq(entry.pairs, LAMBDA q : q.k # key.s[1]))
                 ELSE entry,
               FALSE, Null, Bool(FALSE), ok)
      ELSE Settled(st, TRUE, Str(<<"Invalid entry">>))

\* addMountpoint(cfg, cli)
addMountpoint(st, opt, ok) ==
  LET name == option(opt, "name", Undefined)
      transport == option(opt, "transport", Str(<<"osjs">>))
      dest == option(opt, "path", Undefined)
      ro == IF Truthy(option(opt, "ro", Undefined))
              THEN option(opt, "ro", Undefined) ELSE Bool(FALSE)
  IN  IF ~Truthy(name) \/ ~Truthy(transport) \/ ~Truthy(dest)
        THEN Settled(st, TRUE, Str(<<"Missing option(s)">>))
        ELSE setConfigPath(
               st, Null,
               Obj(<<Pair("client",
                      Obj(<<Pair("VFS",
                        Obj(<<Pair("Mountpoints",
                          Obj(<<Pair(name.s[1],
                            Obj(<<Pair("enabled", Bool(TRUE)),
                                  Pair("title", option(opt, "title", name)),
                                  Pair("description",
                                       option(opt, "description", Undefined)),
                                  Pair("transport", transport),
                                  Pair("readOnly", ro)>>))>>))>>))>>)),
                     Pair("server",
                      Obj(<<Pair("vfs",
                        Obj(<<Pair("mounts",
                          Obj(<<Pair(name.s[1],
                            Obj(<<Pair("destination", dest),
                                  Pair("ro", ro)>>))>>))>>))>>))>>),
               TRUE, Undefined, Undefined, ok)

----------------------------------------------------------------------------
(* utils.js: execWebpack; webpack.js: parseOptions; tasks: the builds that
   run webpack *)

\* A function value and a regular expression value.
Function == [t |-> "function"]
RegExp == [t |-> "regexp"]

\* minimist(process.argv.slice(2)): the words that are no flag under "_",
\* then every flag under its name.  --debug gives true, --no-minimize
\* gives minimize false, --devtool=eval the text.
minimist(words, flags) == Obj(<<Pair("_", Arr(words, <<>>))>> \o flags)

\* cliWrapper(cli): the object the tasks run by newTask get.  DEBUG tells
\* whether --debug is on the command line.
cliWrapper(cli) ==
  Obj(<<Pair("debug", Bool(GetProp(cli, "debug") = Bool(TRUE))),
        Pair("cli", cli),
        Pair("option", Function)>>)

\* querystring's stringifyPrimitive: the text of a string, a number or a
\* boolean, the empty text for anything else.
stringifyPrimitive(v) ==
  IF v.t \in {"string", "number", "boolean"} THEN String(v) ELSE <<>>

RECURSIVE qsStringify(_, _)
\* qs.stringify(obj): one name=value field per key, one per item for a list.
\* The text is kept as its fields: the escaping keeps "&" and "=" out of
\* names and values.
qsStringify(obj, i) ==
  IF i > Len(obj.pairs) THEN <<>>
  ELSE (IF obj.pairs[i].v.t = "array"
          THEN [j \in 1..Len(obj.pairs[i].v.items) |->
                  <<obj.pairs[i].k, stringifyPrimitive(obj.pairs[i].v.items[j])>>]
          ELSE <<<<obj.pairs[i].k, stringifyPrimitive(obj.pairs[i].v)>>>>)
       \o qsStringify(obj, i + 1)

RECURSIVE qsParse(_, _, _)
\* qs.parse(text): every value is a string; a name that comes again makes
\* a list.
qsParse(fields, i, obj) ==
  IF i > Len(fields) THEN obj
  ELSE qsParse(
         fields, i + 1,
         Obj(PutPair(obj.pairs, fields[i][1],
               IF GetProp(obj, fields[i][1]) = Undefined
                 THEN Str(fields[i][2])
               ELSE IF GetProp(obj, fields[i][1]).t = "array"
                 THEN Arr(Append(GetProp(obj, fields[i][1]).items,
                                 Str(fields[i][2])), <<>>)
               ELSE Arr(<<GetProp(obj, fields[i][1]), Str(fields[i][2])>>,
                        <<>>))))

\* getDefaultWebpackArgs(cli): the arguments after the task's name, or the
\* default ones.
getDefaultWebpackArgs(cli) ==
  LET given == IF Truthy(GetProp(cli, "_"))
                 THEN Tail(GetProp(cli, "_").items) ELSE <<>>
  IN  IF Len(given) = 0
        THEN <<Str(<<"--progress">>), Str(<<"--hide-modules">>)>>
        ELSE given

\* execWebpack(cli, ygor, cwd, params): the call of ygor.shell.
execWebpack(cli, cwd, params) ==
  [cmd |-> <<Str(<<"webpack">>)>> \o params,
   cwd |-> cwd,
   env |-> [OSJS_OPTIONS |-> qsStringify(cli, 1),
            OSJS_DEBUG |-> String(Bool(GetProp(cli, "debug") = Bool(TRUE))),
            OSJS_STANDALONE |->
              String(Bool(GetProp(cli, "standalone") = Bool(TRUE))),
            OSJS_ROOT |-> ROOT]]

\* isNumeric(n) on a value of the options: a text of digits.
isNumeric(val) ==
  val.t = "string" /\ val.s # <<>> /\ \A i \in 1..Len(val.s) : val.s[i] \in DigitChars

RECURSIVE parseDigits(_, _)
\* Math.round(parseFloat(val)) on a text of digits.
parseDigits(str, n) ==
  IF str = <<>> THEN n
  ELSE parseDigits(Tail(str),
                   10 * n + (CHOOSE d \in 0..9 : ToString(d) = Head(str)))

\* The conversion parseOptions makes of each option.
convert(val) ==
  IF val = Str(<<"t", "r", "u", "e">>) THEN Bool(TRUE)
  ELSE IF val = Str(<<"f", "a", "l", "s", "e">>) THEN Bool(FALSE)
  ELSE IF isNumeric(val) THEN Num(parseDigits(val.s, 0))
  ELSE val

\* parseOptions(inp) in a process with the environment e.
parseOptions(inp, e) ==
  LET debugMode == e.OSJS_DEBUG = <<"t", "r", "u", "e">>
      defaults == Obj(<<Pair("debug", Bool(debugMode)),
                        Pair("minimize", Bool(~debugMode)),
                        Pair("sourcemaps", Bool(TRUE)),
                        Pair("exclude", RegExp),
                        Pair("outputSourceMap", Str(<<"[file].map">>)),
                        Pair("outputFileName", Str(<<"[name].js">>))>>)
  IN  TheOne({
        TheOne({
          IF Truthy(GetProp(converted, "devtool")) THEN converted
          ELSE Obj(PutPair(converted.pairs, "devtool",
                     IF Truthy(GetProp(converted, "debug"))
                       THEN Str(<<"inline-source-map">>)
                       ELSE Str(<<"source-map">>))) :
          converted \in {Obj([i \in 1..Len(merged0.pairs) |->
                               Pair(merged0.pairs[i].k,
                                    convert(merged0.pairs[i].v))])}}) :
        merged0 \in {assign(assign(assign(Obj(<<>>), defaults, 1),
                                   qsParse(e.OSJS_OPTIONS, 1, Obj(<<>>)), 1),
                            inp, 1)}})

----------------------------------------------------------------------------
(* packages.js: getPackageMetadata, buildPackage, buildPackages,
   generatePackage *)

\* fs.existsSync of a metadata file.
metadataExists(f) ==
  /\ dirname(dirname(f)) \in DOMAIN pkgFiles
  /\ \E i \in 1..Len(pkgFiles[dirname(dirname(f))]) :
       pkgFiles[dirname(dirname(f))][i][1] = basename(dirname(f))

\* What getPackageMetadata leaves behind: the promise it returns and the
\* file system operations it made.
Looked(promised, ops) ==
  [rejected |-> promised.rejected, meta |-> promised.meta, io |-> ops]

\* getPackageMetadata(cfg, name): the first search path of the repository
\* that holds the package is read.  The call throws, which rejects, on a
\* name without a slash and without cfg.overlays.
getPackageMetadata(c, name) ==
  IF Len(splitSlash(name, <<>>)) < 2 \/ GetProp(c, "overlays").t # "array"
    THEN Looked(Rejected, <<>>)
  ELSE TheOne({
         IF \A i \in 1..Len(files) : ~metadataExists(files[i])
           THEN Looked(Rejected,
                       [i \in 1..Len(files) |-> Io("exists", files[i])])
           ELSE TheOne({
                  Looked(readMetadataFile(files[n], splitSlash(name, <<>>)[1][1],
                                          readJsonSync(files[n])),
                         [i \in 1..n |-> Io("exists", files[i])]
                           \o <<Io("read", files[n])>>) :
                  n \in {CHOOSE m \in 1..Len(files) :
                           /\ metadataExists(files[m])
                           /\ \A j \in 1..(m - 1) : ~metadataExists(files[j])}}) :
         files \in {[i \in 1..Len(getPackagePaths(c, splitSlash(name, <<>>)[1][1],
                                                 pkgDirs)) |->
                      joinPath(getPackagePaths(c, splitSlash(name, <<>>)[1][1],
                                               pkgDirs)[i],
                               <<splitSlash(name, <<>>)[2][1],
                                 "metadata.json">>)]}})

\* getPackageMetadata(cfg, name) is called for a name of the mapping
\* getMetadata resolved with.
GetPackageMetadata ==
  /\ mpc = "done" /\ metaSettled = "resolved" /\ pkgMeta = None
  /\ \E name \in KeysOf(metaResult.pairs) :
     \E found \in {getPackageMetadata(cfg, name)} :
       pkgMeta' = [name |-> name, rejected |-> found.rejected,
                   meta |-> found.meta]
  /\ UNCHANGED <<mergeVars, env, resolveVars, fsVars, readVars, pkgFsVars,
                 pkgVars, buildInputs, buildVars, metaInputs, metaVars,
                 themeInputs, themeVars, outVars, taskVars, batchVars,
                 webpackVars, seqVars>>

\* A batch that goes on to the next package whatever became of the last;
\* the claims about a failing build have to tell it from each.
eachKeepGoing(ok, rest) ==
  IF rest = <<>> THEN "resolved" ELSE "each"

\* promise.each after the promise of one item has settled: a rejection
\* rejects the whole, the last fulfilment resolves it, and otherwise the
\* next item is taken.
each(ok, rest) ==
  IF ~ok THEN "rejected"
  ELSE IF rest = <<>> THEN "resolved"
  ELSE "each"

\* Object.keys(manifest)
keysOf(obj) == [i \in 1..Len(obj.pairs) |-> obj.pairs[i].k]

\* buildPackages is called: so is getMetadata, without a filter.
BuildPackages ==
  /\ bpc = "idle" /\ filter = "all"
  /\ getMetadataCalled
  /\ bpc' = IF metaSettled' = "rejected" THEN "rejected" ELSE "manifest"
  /\ UNCHANGED <<mergeVars, env, resolveVars, fsVars, readVars, pkgFsVars,
                 pkgVars, buildInputs, buildVars, themeInputs, themeVars,
                 outVars, extraVars, taskVars, webpackFails, buildQueue, building,
                 started>>

\* getMetadata(...).catch(reject)
BatchMetadataFailed ==
  /\ bpc = "manifest" /\ mpc = "done" /\ metaSettled = "rejected"
  /\ bpc' = "rejected"
  /\ UNCHANGED <<mergeVars, env, resolveVars, fsVars, readVars, pkgFsVars,
                 pkgVars, buildInputs, buildVars, metaInputs, metaVars,
                 themeInputs, themeVars, outVars, extraVars, taskVars, webpackFails,
                 buildQueue, building, started>>

\* getMetadata(...).then: promise.each is given the keys of the manifest.
BatchManifest ==
  /\ bpc = "manifest" /\ mpc = "done" /\ metaSettled = "resolved"
  /\ buildQueue' = keysOf(metaResult)
  /\ bpc' = each(TRUE, buildQueue')
  /\ UNCHANGED <<mergeVars, env, resolveVars, fsVars, readVars, pkgFsVars,
                 pkgVars, buildInputs, buildVars, metaInputs, metaVars,
                 themeInputs, themeVars, outVars, extraVars, taskVars, webpackFails,
                 building, started>>

\* buildPackage up to the call of execWebpack, for the package `name`.
buildPackageCalled(name) ==
  \E found \in {getPackageMetadata(cfg, name)} :
    /\ io' = io \o found.io
    /\ IF found.rejected
         THEN UNCHANGED <<building, started, shell>>
         ELSE /\ building' = Str(name)
              /\ started' = Append(started, name)
              /\ shell' = Append(shell,
                                 execWebpack(cliWrapper(argv),
                                             ROOT \o <<"/">> \o
                                               GetProp(found.meta, "_src").s,
                                             <<>>))

\* promise.each takes the next name: buildPackage(cfg, cli, ygor, name).
BuildPackage ==
  /\ bpc = "each" /\ building = None /\ buildQueue # <<>>
  /\ buildPackageCalled(Head(buildQueue))
  /\ buildQueue' = Tail(buildQueue)
  /\ bpc' = IF building' = None THEN each(FALSE, buildQueue') ELSE bpc
  /\ UNCHANGED <<mergeVars, env, resolveVars, fsVars, readVars, pkgFsVars,
                 pkgVars, buildInputs, buildVars, metaInputs, metaVars,
                 themeInputs, themeVars, outVars, argv, options, moreVars,
                 task, custom, disk, webpackFails>>

\* The webpack run of the package being built exits.
WebpackExit ==
  /\ bpc = "each" /\ building # None
  /\ building' = None
  /\ bpc' = each(building.s \notin webpackFails, buildQueue)
  /\ UNCHANGED <<mergeVars, env, resolveVars, fsVars, readVars, pkgFsVars,
                 pkgVars, buildInputs, buildVars, metaInputs, metaVars,
                 themeInputs, themeVars, outVars, extraVars, taskVars, webpackFails,
                 buildQueue, started>>

\* The characters the package generator removes from a name.
UnsafeChars == {Space, "!"}

\* str.replace(/[^A-z0-9\._]/g, ''); the white space is gone with it, so
\* the replace of /\s+/g that follows finds nothing.
sanitize(str) == SelectSeq(str, LAMBDA ch : ch \notin UnsafeChars)

----------------------------------------------------------------------------
(* tasks: newTask and the tasks of the command line *)

notShell == <<mergeVars, env, resolveVars, fsVars, readVars, pkgFsVars,
              pkgVars, buildInputs, buildVars, metaInputs, metaVars,
              themeInputs, themeVars, outVars, argv, options, moreVars>>
notTask == <<notShell, shell>>

\* newTask: readConfigurationTree is called, which starts the glob of
\* src/conf, before the task's own function is.
NewTask ==
  /\ task.name \notin {"none", "build:core"}
  /\ task.pc = "idle" /\ rpc = "idle"
  /\ task' = [task EXCEPT !.pc = "tree"]
  /\ rpc' = "start"
  /\ object' = Obj(<<>>)
  /\ UNCHANGED <<mergeVars, env, resolveVars, fsVars, paths, mergeLog,
                 warnings, cfg, pkgFsVars, pkgVars, buildInputs, buildVars,
                 metaInputs, metaVars, themeInputs, themeVars, outVars, io,
                 custom, disk, batchVars, extraVars>>

\* readConfigurationTree().catch(reject)
TaskTreeFailed ==
  /\ task.pc = "tree" /\ rpc = "rejected"
  /\ task' = [task EXCEPT !.pc = "rejected", !.value = Str(<<"Error">>)]
  /\ UNCHANGED <<notTask, io, custom, disk, batchVars>>

\* The task's function is called with the tree.
Running(name) == task.name = name /\ task.pc = "tree" /\ rpc = "resolved"

\* The promise of a function of configuration.js settles the task.
settle(r) ==
  /\ task' = [task EXCEPT !.pc = IF r.rejected THEN "rejected" ELSE "resolved",
                          !.value = r.value]
  /\ io' = r.io
  /\ custom' = r.custom

Disk == [io |-> io, custom |-> custom]

ConfigGet ==
  /\ Running("config:get")
  /\ \E name \in {option(task.opt, "name", Undefined)} :
       settle(IF Truthy(name)
                THEN Settled(Disk, FALSE, getConfiguration(cfg, name.s))
                ELSE Settled(Disk, TRUE, Str(<<"You need to give --name">>)))
  /\ UNCHANGED <<notTask, disk, batchVars>>

ConfigSet ==
  /\ Running("config:set")
  /\ settle(setConfiguration(Disk, option(task.opt, "name", Undefined),
                             option(task.opt, "value", Undefined),
                             option(task.opt, "import", Undefined),
                             option(task.opt, "out", Undefined), writable))
  /\ UNCHANGED <<notTask, disk, batchVars>>

ConfigAdd ==
  /\ Running("config:add")
  /\ settle(addConfiguration(Disk, cfg, option(task.opt, "name", Undefined),
                             option(task.opt, "key", Undefined),
                             option(task.opt, "value", Undefined), writable))
  /\ UNCHANGED <<notTask, disk, batchVars>>

ConfigRemove ==
  /\ Running("config:remove")
  /\ settle(removeConfiguration(Disk, cfg,
                                option(task.opt, "name", Undefined),
                                option(task.opt, "key", Undefined),
                                option(task.opt, "value", Undefined),
                                writable))
  /\ UNCHANGED <<notTask, disk, batchVars>>

ConfigMount ==
  /\ Running("config:mount")
  /\ settle(addMountpoint(Disk, task.opt, writable))
  /\ UNCHANGED <<notTask, disk, batchVars>>

\* build:package: buildPackage with the name of the command line; without
\* one, name.split throws in getPackageMetadata.
TaskBuildPackage ==
  /\ Running("build:package")
  /\ \E name \in {option(task.opt, "name", Undefined)} :
       IF name = Undefined
         THEN /\ task' = [task EXCEPT !.pc = "rejected",
                                      !.value = Str(<<"TypeError">>)]
              /\ UNCHANGED <<io, building, started, shell>>
         ELSE /\ buildPackageCalled(name.s)
              /\ task' = IF building' = None
                           THEN [task EXCEPT !.pc = "rejected",
                                             !.value = Str(<<"Error">>)]
                           ELSE [task EXCEPT !.pc = "webpack"]
  /\ UNCHANGED <<notShell, custom, disk, webpackFails, buildQueue, bpc>>

\* The webpack run of build:package exits.
TaskWebpackExit ==
  /\ task.pc = "webpack"
  /\ building' = None
  /\ task' = [task EXCEPT !.pc = IF building.s \in webpackFails
                                   THEN "rejected" ELSE "resolved"]
  /\ UNCHANGED <<notTask, io, custom, disk, webpackFails, buildQueue, started,
                 bpc>>

\* generate:package: generatePackage, without --dest, up to the glob of the
\* copied files.
GeneratePackage ==
  /\ Running("generate:package")
  /\ \E type \in {OrElse(option(task.opt, "type", Undefined),
                         Str(<<"application">>))} :
     \E fqpn \in {OrElse(option(task.opt, "name", Undefined), Str(<<>>))} :
     \E split \in {splitSlash(fqpn.s, <<>>)} :
       IF ~Truthy(fqpn) \/ Len(split) # 2
         THEN /\ task' = [task EXCEPT
                            !.pc = "rejected",
                            !.value = Str(<<"Invalid package name or type">>)]
              /\ UNCHANGED <<io, disk>>
         ELSE \E dest \in {joinPath(ROOT, <<"src", "packages">>) \o <<"/">> \o
                           sanitize(split[1]) \o <<"/">> \o
                           sanitize(split[2])} :
              \E src \in {joinPath(ROOT, <<"src", "templates", "package">>)
                          \o <<"/">> \o type.s} :
                IF disk.dest
                  THEN /\ task' = [task EXCEPT !.pc = "rejected",
                                               !.value = Str(<<"Error">>)]
                       /\ io' = Append(io, Io("exists", dest))
                       /\ UNCHANGED disk
                ELSE IF type.s \notin disk.types
                  THEN /\ task' = [task EXCEPT !.pc = "rejected",
                                               !.value = Str(<<"Error">>)]
                       /\ io' = io \o <<Io("exists", dest), Io("exists", src)>>
                       /\ UNCHANGED disk
                ELSE IF ~writable
                  THEN /\ task' = [task EXCEPT !.pc = "rejected",
                                               !.value = Str(<<"Error">>)]
                       /\ io' = io \o <<Io("exists", dest), Io("exists", src),
                                        Io("copy", dest)>>
                       /\ UNCHANGED disk
                ELSE /\ task' = [task EXCEPT !.pc = "glob", !.value = Str(dest)]
                     /\ io' = io \o <<Io("exists", dest), Io("exists", src),
                                      Io("copy", dest), Io("glob", dest)>>
                     /\ disk' = [disk EXCEPT !.dest = TRUE]
  /\ UNCHANGED <<notTask, custom, batchVars>>

\* The glob of the generated package answers: EXAMPLE is replaced in each
\* file and the task resolves.
GenerateGlobDone ==
  /\ task.name = "generate:package" /\ task.pc = "glob"
  /\ task' = [task EXCEPT !.pc = "resolved", !.value = Bool(TRUE)]
  /\ io' = io \o [i \in 1..(2 * disk.files) |->
                    Io(IF i % 2 = 1 THEN "read" ELSE "write", task.value.s)]
  /\ UNCHANGED <<notTask, custom, disk, batchVars>>

\* build:core: execWebpack is called with the object of minimist itself,
\* and no configuration tree is read.
BuildCore ==
  /\ task.name = "build:core" /\ task.pc = "idle"
  /\ shell' = Append(shell,
                     execWebpack(argv, joinPath(ROOT, <<"src", "client">>),
                                 getDefaultWebpackArgs(argv)))
  /\ task' = [task EXCEPT !.pc = "shell"]
  /\ UNCHANGED <<notShell, io, custom, disk, batchVars>>

\* build:themes: execWebpack is called with the wrapper newTask made.
BuildThemes ==
  /\ Running("build:themes")
  /\ shell' = Append(shell,
                     execWebpack(cliWrapper(argv),
                                 joinPath(ROOT, <<"src", "themes">>),
                                 getDefaultWebpackArgs(cliWrapper(argv))))
  /\ task' = [task EXCEPT !.pc = "shell"]
  /\ UNCHANGED <<notShell, io, custom, disk, batchVars>>

\* The webpack run of build:core or build:themes exits, with or without an
\* error.
ShellExit ==
  /\ task.pc = "shell"
  /\ \E ok \in BOOLEAN :
       task' = [task EXCEPT !.pc = IF ok THEN "resolved" ELSE "rejected"]
  /\ UNCHANGED <<notTask, io, custom, disk, batchVars>>

\* build:packages: buildPackages is called.
TaskBuildPackages ==
  /\ Running("build:packages")
  /\ BuildPackages

\* buildPackages(...).then(resolve).catch(reject)
TaskPackagesSettled ==
  /\ Running("build:packages") /\ bpc \in {"resolved", "rejected"}
  /\ task' = [task EXCEPT !.pc = bpc]
  /\ UNCHANGED <<notTask, io, custom, disk, batchVars>>

\* webpack.config.js of the directory webpack was started in calls
\* parseOptions, in the environment execWebpack gave the process.
ParseOptions ==
  /\ Len(options) < Len(shell)
  /\ options' = Append(options,
                       parseOptions(Obj(<<>>), shell[Len(options) + 1].env))
  /\ UNCHANGED <<mergeVars, env, resolveVars, fsVars, readVars, pkgFsVars,
                 pkgVars, buildInputs, buildVars, metaInputs, metaVars,
                 themeInputs, themeVars, outVars, argv, shell, moreVars,
                 taskVars, batchVars>>

\* The sub-tasks of build with build:core before the configuration; the
\* claims about the order of the sub-tasks have to tell it from BuildTasks.
BuildTasksCoreFirst ==
  <<"build:core", "build:config", "build:manifest", "build:themes",
    "build:packages">>

\* The sub-tasks of build, in the order of the list given to promise.each.
BuildTasks ==
  <<"build:config", "build:manifest", "build:themes", "build:core",
    "build:packages">>

notSeq == <<mergeVars, env, resolveVars, fsVars, readVars, pkgFsVars,
            pkgVars, buildInputs, buildVars, metaInputs, metaVars,
            themeInputs, themeVars, outVars, webpackVars, pkgMeta, taskVars,
            batchVars>>

\* build: promise.each is given the names of the sub-tasks.
Build ==
  /\ seqpc = "idle"
  /\ tasks' = BuildTasks
  /\ seqpc' = each(TRUE, tasks')
  /\ UNCHANGED <<notSeq, running, ran, failing>>

\* promise.each takes the next name: ygor.run(name).
RunTask ==
  /\ seqpc = "each" /\ running = None /\ tasks # <<>>
  /\ running' = Str(<<Head(tasks)>>)
  /\ ran' = Append(ran, Head(tasks))
  /\ tasks' = Tail(tasks)
  /\ UNCHANGED <<notSeq, failing, seqpc>>

\* The promise of the running sub-task settles: promise.each goes on to
\* the next name, resolves after the last or rejects.
TaskSettled ==
  /\ seqpc = "each" /\ running # None
  /\ running' = None
  /\ seqpc' = each(running.s[1] \notin failing, tasks)
  /\ UNCHANGED <<notSeq, tasks, ran, failing>>

----------------------------------------------------------------------------
(* Inputs of buildPackages *)

\* The packages of repository default, in glob order, and what the
\* metadata file of each holds.
DefaultPackages ==
  {<<>>,
   <<<<"bar", Obj(<<>>)>>>>,
   <<<<"bar", Obj(<<>>)>>, <<"foo", Obj(<<>>)>>>>,
   <<<<"bar", Obj(<<Pair("enabled", Bool(FALSE))>>)>>, <<"foo", Obj(<<>>)>>>>,
   <<<<"bar", Obj(<<>>)>>, <<"foo", Malformed>>>>}

PackageKey(repo, name) == <<repo, "/", name>>

\* Two repositories, up to three packages, and any of them failing to build.
InitPackages ==
  /\ cfg = Obj(<<Pair("overlays", Arr(<<>>, <<>>)),
                 Pair("packages", Obj(<<>>)),
                 Pair("repositories",
                      Arr(<<Str(<<"default">>), Str(<<"extra">>)>>, <<>>))>>)
  /\ pkgDirs = {}
  /\ \E found \in DefaultPackages :
     \E baz \in BOOLEAN :
       pkgFiles = [p \in {RepoPath("src", "default"), RepoPath("src", "extra")} |->
                     IF p = RepoPath("src", "default") THEN found
                     ELSE IF baz THEN <<<<"baz", Obj(<<>>)>>>> ELSE <<>>]
  /\ webpackFails \in SUBSET {PackageKey("default", "bar"),
                              PackageKey("default", "foo"),
                              PackageKey("extra", "baz")}
  /\ buildQueue = <<>> /\ building = None /\ started = <<>> /\ bpc = "idle"
  /\ NoEnv /\ MergeIdle /\ ResolveIdle /\ NoFiles /\ ReaderIdle /\ PkgIdle
  /\ BuildIdle /\ MetaIdle /\ ThemesIdle /\ OutIdle /\ TaskIdle
  /\ argv = minimist(<<Str(<<"build:packages">>)>>, <<>>)
  /\ shell = <<>> /\ options = <<>> /\ MoreIdle

NextPackages ==
  \/ BuildPackages
  \/ RepositoryDone
  \/ ResolveMetadata
  \/ BatchMetadataFailed
  \/ BatchManifest
  \/ BuildPackage
  \/ WebpackExit

\* Every callback that can run does run in the end, and every webpack run
\* exits.
SpecPackages == InitPackages /\ [][NextPackages]_vars /\ WF_vars(NextPackages)

\* Discovery followed by the lookup of one of its packages.
NextLookup ==
  \/ GetMetadata
  \/ RepositoryDone
  \/ ResolveMetadata
  \/ GetPackageMetadata

SpecLookup == InitMeta /\ [][NextLookup]_vars

----------------------------------------------------------------------------
(* Inputs of build *)

\* Any of the sub-tasks may fail.
InitSequence ==
  /\ failing \in SUBSET {BuildTasks[i] : i \in 1..Len(BuildTasks)}
  /\ tasks = <<>> /\ running = None /\ ran = <<>> /\ seqpc = "idle"
  /\ pkgMeta = None /\ WebpackIdle /\ TaskIdle /\ BatchIdle
  /\ NoEnv /\ MergeIdle /\ ResolveIdle /\ NoFiles /\ ReadIdle /\ NoPackages
  /\ PkgIdle /\ BuildIdle /\ MetaIdle /\ ThemesIdle /\ OutIdle

NextSequence == Build \/ RunTask \/ TaskSettled

SpecSequence == InitSequence /\ [][NextSequence]_vars

----------------------------------------------------------------------------
(* Inputs of the tasks *)

OptionNames ==
  {"name", "value", "import", "out", "key", "path", "transport", "type",
   "title", "description", "ro"}

NoOptions == [k \in OptionNames |-> Undefined]

\* The options of a command line as minimist gives them.
flagsOf(opt) ==
  LET order == <<"name", "value", "import", "out", "key", "path",
                 "transport", "type", "title", "description", "ro">>
      given == SelectSeq(order, LAMBDA k : opt[k] # Undefined)
  IN  [i \in 1..Len(given) |-> Pair(given[i], opt[given[i]])]

\* The command lines: every task with and without the options it needs.
CommandLines ==
  {[name |-> "config:get", opt |-> [NoOptions EXCEPT !["name"] = n]] :
     n \in {Undefined, Str(<<"a", ".", "x">>)}}
  \cup
  {[name |-> "config:set",
    opt |-> [NoOptions EXCEPT !["name"] = n, !["value"] = v,
                              !["import"] = i, !["out"] = o]] :
     n \in {Undefined, Str(<<"a", ".", "x">>)},
     v \in {Undefined, Str(<<"v">>)},
     i \in {Undefined, Str(<<"i.json">>)},
     o \in {Undefined, Str(<<"o.json">>)}}
  \cup
  {[name |-> "config:add",
    opt |-> [NoOptions EXCEPT !["name"] = n, !["key"] = k, !["value"] = v]] :
     n \in {Str(<<"a">>), Str(<<"a", ".", "l">>), Str(<<"a", ".", "x">>),
            Str(<<"z">>)},
     k \in {Undefined, Str(<<"k">>)},
     v \in {Str(<<"v">>), Str(<<"w">>)}}
  \cup
  {[name |-> "config:remove",
    opt |-> [NoOptions EXCEPT !["name"] = n, !["key"] = k, !["value"] = v]] :
     n \in {Str(<<"a">>), Str(<<"a", ".", "l">>), Str(<<"a", ".", "x">>),
            Str(<<"z">>)},
     k \in {Undefined, Str(<<"x">>), Num(0)},
     v \in {Str(<<"v">>), Str(<<"w">>)}}
  \cup
  {[name |-> "config:mount",
    opt |-> [NoOptions EXCEPT !["name"] = n, !["path"] = d,
                              !["transport"] = t]] :
     n \in {Undefined, Str(<<"m">>)},
     d \in {Undefined, Str(<<"/", "tmp">>)},
     t \in {Undefined, Str(<<>>)}}
  \cup
  {[name |-> "build:package", opt |-> [NoOptions EXCEPT !["name"] = n]] :
     n \in {Undefined, Str(<<"foo">>), Str(PackageKey("default", "foo")),
            Str(PackageKey("default", "nope"))}}
  \cup
  {[name |-> "generate:package",
    opt |-> [NoOptions EXCEPT !["name"] = n, !["type"] = t]] :
     n \in {Undefined, Str(<<"foo">>), Str(PackageKey("my", "foo")),
            Str(<<"my", "/", "f", "!", "oo">>), Str(<<"/", "foo">>),
            Str(<<"my", "/", "foo", "/", "x">>)},
     t \in {Undefined, Str(<<"service">>)}}

\* What the disk holds that the task of a command line looks at.
Disks(line) ==
  [import : IF line.name = "config:set"
              THEN {None, Malformed, Obj(<<Pair("b", Num(1))>>)} ELSE {None},
   dest : IF line.name = "generate:package" THEN BOOLEAN ELSE {FALSE},
   types : IF line.name = "generate:package"
             THEN {{<<"application">>}, {<<"application">>, <<"service">>}}
             ELSE {{<<"application">>}},
   files : IF line.name = "generate:package" THEN 0..1 ELSE {0}]

\* The base fragment of the tasks' configuration tree.
TaskFragment(o) ==
  Obj(<<Pair("overlays", o),
        Pair("repositories", Arr(<<Str(<<"default">>)>>, <<>>)),
        Pair("packages", Obj(<<>>)),
        Pair("a", Obj(<<Pair("x", Num(1)),
                        Pair("l", Arr(<<Str(<<"v">>)>>, <<>>))>>))>>)

\* One command line, a tree with no overlay, with one or with an overlays
\* key that is no list, a disk that takes writes or refuses them, and for
\* build:package one package whose metadata or whose build may be broken.
InitTask ==
  /\ \E line \in CommandLines :
       /\ task = [name |-> line.name, opt |-> line.opt, pc |-> "idle",
                  value |-> None]
       /\ argv = minimist(<<Str(<<line.name>>)>>, flagsOf(line.opt))
       /\ disk \in Disks(line)
       /\ \E foo \in (IF line.name = "build:package"
                        THEN {Obj(<<>>), Malformed} ELSE {Obj(<<>>)}) :
            pkgFiles = [p \in {RepoPath("src", "default")} |-> <<<<"foo", foo>>>>]
       /\ webpackFails \in (IF line.name = "build:package"
                              THEN {{}, {PackageKey("default", "foo")}}
                              ELSE {{}})
  /\ \E o \in {Arr(<<>>, <<>>), Arr(<<Str(<<"o1">>)>>, <<>>), Num(1)} :
       /\ confDirs = Listed(o)
       /\ confFiles = [d \in {"base", "o1", "o2"} |->
                         CASE d = "base" -> <<TaskFragment(o)>>
                           [] d = "o1" -> <<Obj(<<Pair("b", Num(2))>>)>>
                           [] OTHER -> <<>>]
  /\ pkgDirs = {}
  /\ io = <<>> /\ custom = <<>>
  /\ writable \in BOOLEAN
  /\ template = TRUE /\ outDirs = [d \in {"dist", "server"} |-> "present"]
  /\ buildQueue = <<>> /\ building = None /\ started = <<>> /\ bpc = "idle"
  /\ NoEnv /\ MergeIdle /\ ResolveIdle /\ ReadIdle /\ PkgIdle /\ BuildIdle
  /\ MetaIdle /\ ThemesIdle
  /\ shell = <<>> /\ options = <<>> /\ MoreIdle

NextTask ==
  \/ NewTask
  \/ ReadBase
  \/ ListOverlays
  \/ ReadOverlay
  \/ FinishRead
  \/ TaskTreeFailed
  \/ ConfigGet
  \/ ConfigSet
  \/ ConfigAdd
  \/ ConfigRemove
  \/ ConfigMount
  \/ TaskBuildPackage
  \/ TaskWebpackExit
  \/ GeneratePackage
  \/ GenerateGlobDone

SpecTask == InitTask /\ [][NextTask]_vars

----------------------------------------------------------------------------
(* Inputs of the builds that run webpack *)

\* The builds that run webpack.
Bundling == {"build:core", "build:themes", "build:package", "build:packages"}

\* The flags of a command line, as minimist gives them.
FlagSets ==
  {d \o m \o sm \o dt :
     d \in {<<>>, <<Pair("debug", Bool(TRUE))>>},
     m \in {<<>>, <<Pair("minimize", Bool(FALSE))>>},
     sm \in {<<>>, <<Pair("sourcemaps", Bool(FALSE))>>},
     dt \in {<<>>, <<Pair("devtool", Str(<<"eval">>))>>,
             <<Pair("level", Num(2))>>}}

\* The base fragment of the builds' configuration tree.
BundlingFragment ==
  Obj(<<Pair("overlays", Arr(<<>>, <<>>)),
        Pair("repositories", Arr(<<Str(<<"default">>)>>, <<>>)),
        Pair("packages",
             Obj(<<Pair("ForceEnable", Arr(<<>>, <<>>)),
                   Pair("ForceDisable", Arr(<<>>, <<>>))>>))>>)

\* One build with any of the flags, with and without an argument for
\* webpack, a tree without overlays, and two packages of which one may
\* fail to build.
InitWebpack ==
  /\ \E name \in Bundling :
     \E flags \in FlagSets :
     \E more \in {<<>>, <<Str(<<"--watch">>)>>} :
       /\ task = [name |-> name,
                  opt |-> [NoOptions EXCEPT !["name"] =
                             IF name = "build:package"
                               THEN Str(PackageKey("default", "foo"))
                               ELSE Undefined],
                  pc |-> "idle", value |-> None]
       /\ argv = minimist(<<Str(<<name>>)>> \o more,
                          flags \o (IF name = "build:package"
                                      THEN <<Pair("name",
                                                  Str(PackageKey("default",
                                                                 "foo")))>>
                                      ELSE <<>>))
       /\ webpackFails \in (IF name \in {"build:package", "build:packages"}
                              THEN {{}, {PackageKey("default", "foo")}}
                              ELSE {{}})
  /\ disk = [import |-> None, dest |-> FALSE, types |-> {<<"application">>},
             files |-> 0]
  /\ pkgFiles = [p \in {RepoPath("src", "default")} |->
                   <<<<"bar", Obj(<<>>)>>, <<"foo", Obj(<<>>)>>>>]
  /\ confDirs = Listed(Arr(<<>>, <<>>))
  /\ confFiles = [d \in {"base", "o1", "o2"} |->
                    IF d = "base" THEN <<BundlingFragment>> ELSE <<>>]
  /\ pkgDirs = {}
  /\ io = <<>> /\ custom = <<>>
  /\ shell = <<>> /\ options = <<>> /\ MoreIdle
  /\ writable = TRUE
  /\ template = TRUE /\ outDirs = [d \in {"dist", "server"} |-> "present"]
  /\ buildQueue = <<>> /\ building = None /\ started = <<>> /\ bpc = "idle"
  /\ NoEnv /\ MergeIdle /\ ResolveIdle /\ ReadIdle /\ PkgIdle /\ BuildIdle
  /\ MetaIdle /\ ThemesIdle

NextWebpack ==
  \/ NewTask
  \/ ReadBase
  \/ ListOverlays
  \/ FinishRead
  \/ BuildCore
  \/ BuildThemes
  \/ ShellExit
  \/ TaskBuildPackage
  \/ TaskWebpackExit
  \/ TaskBuildPackages
  \/ RepositoryDone
  \/ ResolveMetadata
  \/ BatchManifest
  \/ BuildPackage
  \/ WebpackExit
  \/ TaskPackagesSettled
  \/ ParseOptions

SpecWebpack == InitWebpack /\ [][NextWebpack]_vars

----------------------------------------------------------------------------
(* Inputs of the merge *)

MaxNum == 1
MaxDepth == 2

MergeKeys == <<"a", "b">>

MergeLeaves ==
  {Num(n) : n \in 1..MaxNum} \cup
  {Str(<<"s">>), Null, Arr(<<Num(1)>>, <<>>)}

Opt(S) == {<<>>} \cup {<<x>> : x \in S}

RECURSIVE MergeTrees(_)
\* Mappings of depth at most d: under "a" a leaf or a mapping one level
\* less deep, under "b" a leaf, each key present or absent.
MergeTrees(d) ==
  IF d = 0 THEN {}
  ELSE {Obj([i \in 1..Len(ks) |-> ks[i]]) :
          ks \in {ka \o kb :
                    ka \in {<<>>} \cup {<<Pair("a", v)>> :
                              v \in MergeLeaves \cup MergeTrees(d - 1)},
                    kb \in {<<>>} \cup {<<Pair("b", v)>> : v \in MergeLeaves}}}

InitMerge ==
  /\ into \in MergeTrees(MaxDepth)
  /\ from \in MergeTrees(MaxDepth)
  /\ merged = None
  /\ NoEnv /\ ResolveIdle /\ NoFiles /\ ReadIdle /\ NoPackages /\ PkgIdle /\ LaterIdle
  /\ BuildIdle

\* merged = mergeObject(copy(into), from)
MergeObject ==
  /\ merged = None
  /\ merged' = mergeObject(into, from)
  /\ UNCHANGED <<into, from, env, resolveVars, fsVars, readVars, pkgFsVars,
                 pkgVars,
                 laterVars, buildInputs, buildVars>>

NextMerge == MergeObject

SpecMerge == InitMerge /\ [][NextMerge]_vars

----------------------------------------------------------------------------
(* Inputs of the placeholder resolver *)

MaxPairs == 3

UIDName == <<"U", "I", "D">>

\* The entries a tree is made of: tokens that refer to tree keys, to the
\* environment, to a reserved word, to a dot-path, and the keys they name.
ResolvePairs ==
  {Pair("a", Str(Tok(<<"b">>))),
   Pair("a", Str(Tok(<<"c">>))),
   Pair("a", Str(Tok(<<"A">>))),
   Pair("a", Str(Tok(<<"A", "_">>))),
   Pair("a", Str(Tok(UIDName))),
   Pair("a", Str(Tok(<<"U", ".", "D">>))),
   Pair("a", Str(Tok(<<"R", "O", "O", "T">>) \o <<"/", "x">>)),
   Pair("b", Str(<<"x">>)),
   Pair("b", Str(Tok(<<"c">>))),
   Pair("b", Str(Tok(UIDName))),
   Pair("b", Num(1)),
   Pair("c", Str(Tok(<<"b">>))),
   Pair("c", Str(<<"x">>)),
   Pair("A", Str(<<"t">>)),
   Pair("UID", Str(<<"t">>)),
   Pair("U", Obj(<<Pair("D", Str(<<"x">>))>>))}

RECURSIVE PairSeqs(_)
\* The sequences of at most n entries with distinct keys.
PairSeqs(n) ==
  IF n = 0 THEN {<<>>}
  ELSE LET shorter == PairSeqs(n - 1)
           longer == {Append(q, e) : q \in shorter, e \in ResolvePairs}
       IN  shorter \cup
           {q \in longer : \A i \in 1..(Len(q) - 1) : q[i].k # q[Len(q)].k}

\* process.env: no variable, A set, A set to the empty string, UID set, A_ set.
Environments ==
  {<<>>,
   [n \in {<<"A">>} |-> <<"e">>],
   [n \in {<<"A">>} |-> <<>>],
   [n \in {UIDName, <<"A">>} |-> <<"u">>],
   [n \in {<<"A", "_">>} |-> <<"e">>]}

\* Each replaced word of a pass with the text it was replaced by.
replacementLog(e, obj, overlay) ==
  LET tmpFile == preparedText(obj, overlay)
      tmpConfig == parse(tmpFile)
      ws == replacedWords(wordsOf(tmpFile))
  IN  [i \in 1..Len(ws) |->
         [word |-> ws[i], by |-> String(wordValue(e, tmpConfig, ws[i]))]]

InitResolve ==
  /\ env \in Environments
  /\ tree \in {Obj(q) : q \in PairSeqs(MaxPairs)}
  /\ once = None /\ twice = None /\ replaced = <<>>
  /\ MergeIdle /\ NoFiles /\ ReadIdle /\ NoPackages /\ PkgIdle /\ LaterIdle
  /\ BuildIdle

\* once = resolveConfigurationVariables(tree)
ResolveOnce ==
  /\ tree # None /\ once = None
  /\ once' = resolveConfigurationVariables(env, tree, Undefined)
  /\ replaced' = replacementLog(env, tree, Undefined)
  /\ UNCHANGED <<mergeVars, env, tree, twice, fsVars, readVars, pkgFsVars,
                 pkgVars,
                 laterVars, buildInputs, buildVars>>

\* twice = resolveConfigurationVariables(once)
ResolveTwice ==
  /\ once # None /\ twice = None
  /\ twice' = resolveConfigurationVariables(env, once, Undefined)
  /\ UNCHANGED <<mergeVars, env, tree, once, replaced, fsVars, readVars,
                 pkgFsVars, pkgVars,
                 laterVars, buildInputs, buildVars>>

NextResolve == ResolveOnce \/ ResolveTwice

SpecResolve == InitResolve /\ [][NextResolve]_vars

----------------------------------------------------------------------------
(* C5, C6, C7: the placeholder resolver *)

SeqRange(q) == {q[i] : i \in 1..Len(q)}

RECURSIVE StringsOf(_)
\* The string values of a tree.
StringsOf(v) ==
  CASE v.t = "string" -> {v.s}
    [] v.t = "object" -> UNION {StringsOf(v.pairs[i].v) : i \in 1..Len(v.pairs)}
    [] v.t = "array" -> UNION {StringsOf(v.items[i]) : i \in 1..Len(v.items)}
    [] OTHER -> {}

TokensIn(s) == SeqRange(matchFrom(s, 1))

\* The tree the lookups of a pass on `obj` read.
LookupTree(obj) == parse(preparedText(obj, Undefined))

\* The tokens in the value a token resolves to; a reserved token resolves to
\* nothing.
RefersTo(e, obj, w) ==
  IF w \in safeWords THEN {}
  ELSE TokensIn(String(wordValue(e, LookupTree(obj), w)))

RECURSIVE ReachableTokens(_, _, _)
ReachableTokens(e, obj, ws) ==
  LET more == ws \cup UNION {RefersTo(e, obj, w) : w \in ws}
  IN  IF more = ws THEN ws ELSE ReachableTokens(e, obj, more)

\* A token whose value refers, directly or through other tokens, to itself.
SelfReferential(e, obj) ==
  \E w \in SeqRange(wordsOf(preparedText(obj, Undefined))) :
    w \in ReachableTokens(e, obj, RefersTo(e, obj, w))

\* No replacement of the first pass brought a "%" into the text.
PlainReplacements == \A i \in 1..Len(replaced) : "%" \notin SeqRange(replaced[i].by)

\* Every string of the tree holds at most one token and no "%" outside it.
OneTokenStrings(obj) ==
  \A str \in StringsOf(obj) :
    /\ Len(matchFrom(str, 1)) <= 1
    /\ Cardinality({i \in 1..Len(str) : str[i] = "%"}) = 2 * Len(matchFrom(str, 1))

\* C5 as stated: on a tree without a self-referential token a second pass
\* returns what the first pass returned.
C5_Idempotent ==
  (twice # None /\ ~SelfReferential(env, tree)) => twice = once

\* C5, amended: a second pass returns what the first pass returned when the
\* value each token was replaced by holds no "%" and every string of the tree
\* holds at most one token and no other "%".
C5_IdempotentPlain ==
  (twice # None /\ PlainReplacements /\ OneTokenStrings(tree)) => twice = once

\* A second pass ran on a tree whose first pass replaced two different words.
C5_Witness ==
  /\ twice # None /\ PlainReplacements /\ OneTokenStrings(tree)
  /\ Len(replaced) >= 2
  /\ once # tree

\* The text the claim gives for a word with name p.
C6_FromTree(p) == String(getConfiguration(LookupTree(tree), p))

\* C6 as stated: an all-uppercase name whose environment variable is set is
\* replaced by the variable's value, one whose variable is not set by the
\* tree lookup, any other name by the tree lookup.
C6_LookupSource ==
  \A i \in 1..Len(replaced) :
    LET p == NameOf(replaced[i].word)
    IN  replaced[i].by =
          IF IsUpper(p) /\ p \in DOMAIN env THEN env[p] ELSE C6_FromTree(p)

\* C6, amended: a name made of the letters A-Z only whose environment variable
\* is set to a non-empty value is replaced by that value; every other name,
\* also one whose variable is set to the empty string, by the tree lookup.
C6_LookupSourceNonEmpty ==
  \A i \in 1..Len(replaced) :
    LET p == NameOf(replaced[i].word)
    IN  replaced[i].by =
          IF IsUpper(p) /\ p \in DOMAIN env /\ env[p] # <<>>
            THEN env[p] ELSE C6_FromTree(p)

\* A word was replaced by its environment variable although the tree has a
\* key of the same name, and a word with a lowercase name was replaced too.
C6_Witness ==
  /\ \E i \in 1..Len(replaced) :
       LET p == NameOf(replaced[i].word)
       IN  /\ IsUpper(p) /\ p \in DOMAIN env /\ env[p] # <<>>
           /\ getConfiguration(LookupTree(tree), p) # Undefined
           /\ replaced[i].by = env[p]
  /\ \E i \in 1..Len(replaced) :
       LET p == NameOf(replaced[i].word)
       IN  ~IsUpper(p)

\* The number of places of a string at which a word stands.
Occurrences(w, str) ==
  Cardinality({i \in 1..(Len(str) - Len(w) + 1) :
                 SubSeq(str, i, i + Len(w) - 1) = w})

\* The key paths at which a tree holds a string.
StringPaths(v) == {p \in LeafPaths(v) : Lookup(v, p).t = "string"}

\* C7: every occurrence of a reserved token in the tree is still there in
\* the resolved tree.
C7_ReservedKept ==
  once # None =>
    \A p \in StringPaths(tree) : \A w \in safeWords :
      /\ Lookup(once, p).t = "string"
      /\ Occurrences(w, Lookup(once, p).s) >= Occurrences(w, Lookup(tree, p).s)

----------------------------------------------------------------------------
(* C2, C3, C8: the configuration tree reader *)

\* The overlays the base directory lists and whose conf directory exists, in
\* the order of the list.  Only the first base fragment sets overlays.
ListedOverlays ==
  LET files == confFiles["base"]
      o == IF files # <<>> /\ files[1] # Malformed
             THEN overlaysOf(files[1]) ELSE Arr(<<>>, <<>>)
  IN  IF OverlaysUsable(o) THEN overlayPaths(o, confDirs) ELSE <<>>

\* The directories in the order the claims give: the base, then the overlays.
DirOrder == <<"base">> \o ListedOverlays

DirPos(d) == CHOOSE n \in 1..Len(DirOrder) : DirOrder[n] = d

HasKey(f, k) == f # Malformed /\ k \in KeysOf(f.pairs)

IsScalar(v) == IsPrimitive(v)

\* C2: within one directory the fragments are merged in the order listed:
\* when fragments F1 and then F2 of the base directory give the same
\* top-level key a scalar, and nothing read after F2 sets the key, the tree
\* returned holds F2's value; {"a":1} then {"a":2,"b":3} gives {"a":2,"b":3}.
C2_LaterFragmentWins ==
  rpc = "resolved" =>
    LET base == confFiles["base"]
    IN  /\ \A j \in 1..Len(base) : \A i \in 1..(j - 1) :
             base[i] # Malformed /\ base[j] # Malformed =>
               \A k \in KeysOf(base[i].pairs) \cap KeysOf(base[j].pairs) :
                 ( /\ IsScalar(GetProp(base[i], k))
                   /\ IsScalar(GetProp(base[j], k))
                   /\ \A n \in (j + 1)..Len(base) : ~HasKey(base[n], k)
                   /\ \A d \in {"o1", "o2"} : \A n \in 1..Len(confFiles[d]) :
                        ~HasKey(confFiles[d][n], k) )
                 => GetProp(cfg, k) = GetProp(base[j], k)
        /\ ( /\ base = <<Obj(<<Pair("a", Num(1))>>),
                         Obj(<<Pair("a", Num(2)), Pair("b", Num(3))>>)>>
             /\ confDirs = {} )
           => cfg = Obj(<<Pair("a", Num(2)), Pair("b", Num(3))>>)

\* {"a":1} then {"a":2,"b":3} have been read from the base directory.
C2_Witness ==
  /\ rpc = "resolved"
  /\ confFiles["base"] = <<Obj(<<Pair("a", Num(1))>>),
                           Obj(<<Pair("a", Num(2)), Pair("b", Num(3))>>)>>
  /\ GetProp(cfg, "a") = Num(2)

\* The fragments of directory d that give the key path a leaf.
Definers(d, path) ==
  {n \in 1..Len(confFiles[d]) :
     confFiles[d][n] # Malformed /\ path \in LeafPaths(confFiles[d][n])}

Max(S) == CHOOSE n \in S : \A m \in S : m <= n

\* The key paths some fragment gives a leaf.
DefinedPaths ==
  UNION {UNION {LeafPaths(confFiles[d][n]) \ {<<>>} :
                  n \in 1..Len(confFiles[d])} : d \in {"base", "o1", "o2"}}

\* The fragments are merged base directory first, then overlay by overlay in
\* the order of the list, each directory's fragments in the order listed.
MergedInOrder ==
  \A n \in 1..Len(mergeLog) : \A m \in 1..(n - 1) :
    \/ DirPos(mergeLog[m][1]) < DirPos(mergeLog[n][1])
    \/ mergeLog[m][1] = mergeLog[n][1] /\ mergeLog[m][2] < mergeLog[n][2]

\* C3: the base fragments are merged before any overlay's, the overlays one
\* after the other in the order of the overlays list; a leaf (scalar, or
\* sequence, which is replaced and not concatenated) that the base and
\* several overlays define has, in the tree returned, the value of the
\* last-listed overlay that defines it.
C3_LastOverlayWins ==
  /\ MergedInOrder
  /\ rpc = "resolved" =>
       \A path \in DefinedPaths :
         LET overlays == {n \in 1..Len(ListedOverlays) :
                            Definers(ListedOverlays[n], path) # {}}
         IN  (Definers("base", path) # {} /\ Cardinality(overlays) >= 2) =>
               LET d == ListedOverlays[Max(overlays)]
               IN  Lookup(cfg, path) =
                     Lookup(confFiles[d][Max(Definers(d, path))], path)

\* The files of a directory that can be parsed.
WellFormed(files) == SelectSeq(files, LAMBDA f : f # Malformed)

\* What readConfigurationTree makes of a file system: the tree, or None when
\* the promise is rejected.
RECURSIVE readOverlays(_, _, _, _)
readOverlays(e, obj, files, dirs) ==
  IF dirs = <<>> THEN obj
  ELSE readOverlays(e,
         readFiles(e, ReadState(obj, <<>>, <<>>), Head(dirs),
                   files[Head(dirs)], 1, Str(overlayRoot(Head(dirs)))).object,
         files, Tail(dirs))

readTree(e, files, existing) ==
  LET base == readFiles(e, ReadState(Obj(<<>>), <<>>, <<>>), "base",
                        files["base"], 1, Undefined).object
      o == overlaysOf(base)
  IN  IF OverlaysUsable(o)
        THEN resolveConfigurationVariables(e,
               readOverlays(e, base, files, overlayPaths(o, existing)),
               Undefined)
        ELSE None

\* The files in the order read, each as <<directory, index>>.
RECURSIVE FilesOf(_)
FilesOf(dirs) ==
  IF dirs = <<>> THEN <<>>
  ELSE [n \in 1..Len(confFiles[Head(dirs)]) |-> <<Head(dirs), n>>]
         \o FilesOf(Tail(dirs))

IsMalformed(f) == confFiles[f[1]][f[2]] = Malformed

\* C8: a fragment that is not valid JSON is warned about and skipped; the
\* other fragments are still merged, and the read ends as it would have with
\* the malformed files absent: the same tree, or the same rejection.
C8_MalformedSkipped ==
  rpc \in {"resolved", "rejected"} =>
    /\ cfg = readTree(env, [d \in DOMAIN confFiles |-> WellFormed(confFiles[d])],
                      confDirs)
    /\ rpc = "resolved" =>
         /\ warnings = SelectSeq(FilesOf(DirOrder), IsMalformed)
         /\ mergeLog = SelectSeq(FilesOf(DirOrder), LAMBDA f : ~IsMalformed(f))

\* A malformed fragment came before a fragment of the same directory that
\* changed the tree.
C8_Witness ==
  /\ rpc = "resolved"
  /\ \E w \in 1..Len(warnings) : \E m \in 1..Len(mergeLog) :
       /\ warnings[w][1] = mergeLog[m][1]
       /\ warnings[w][2] < mergeLog[m][2]
       /\ HasKey(confFiles[mergeLog[m][1]][mergeLog[m][2]], "b")
  /\ GetProp(cfg, "b") # Undefined

----------------------------------------------------------------------------
(* C4, C10: package discovery *)

PackageNames == {"foo", "bar"}

Qualified(pkg) == <<Repo, "/", pkg>>

\* The search paths under which the package has a metadata file.
FoundIn(pkg) ==
  {p \in DOMAIN pkgFiles :
     \E i \in 1..Len(pkgFiles[p]) : pkgFiles[p][i][1] = pkg}

\* The metadata file of the package under a search path.
DescriptorAt(p, pkg) ==
  pkgFiles[p][CHOOSE i \in 1..Len(pkgFiles[p]) : pkgFiles[p][i][1] = pkg][2]

\* The package is named, by its short or its qualified name, in the list.
Named(forced, pkg) ==
  \E i \in 1..Len(forced.items) :
    forced.items[i] \in {Str(<<pkg>>), Str(Qualified(pkg))}

\* The enable policy as the claim words it.
Passes(json, pkg) ==
  IF GetProp(json, "enabled") \in {Bool(FALSE), Str(False)}
    THEN Named(forceEnabled, pkg)
    ELSE ~Named(forceDisabled, pkg)

\* The search path the entry of the mapping was read from.
SourceOf(entry) == ROOT \o <<"/">> \o dirname(GetProp(entry, "_src").s)

\* C4: a descriptor whose enabled is false or "false" is retained if and
\* only if its short or qualified name is force-enabled, every other
\* descriptor is dropped if and only if its short or qualified name is
\* force-disabled: the mapping has an entry for a package exactly when one of
\* its descriptors passes, and the entry is a descriptor that passes.
C4_EnablePolicy ==
  settled = "resolved" =>
    \A pkg \in PackageNames :
      /\ Qualified(pkg) \in KeysOf(result.pairs)
           <=> \E p \in FoundIn(pkg) : Passes(DescriptorAt(p, pkg), pkg)
      /\ Qualified(pkg) \in KeysOf(result.pairs) =>
           LET entry == GetProp(result, Qualified(pkg))
           IN  /\ SourceOf(entry) \in FoundIn(pkg)
               /\ Passes(DescriptorAt(SourceOf(entry), pkg), pkg)
               /\ GetProp(entry, "enabled")
                    = GetProp(DescriptorAt(SourceOf(entry), pkg), "enabled")

\* A descriptor with enabled false is retained because its name is
\* force-enabled.
C4_Witness ==
  /\ settled = "resolved"
  /\ Qualified("foo") \in KeysOf(result.pairs)
  /\ GetProp(GetProp(result, Qualified("foo")), "enabled") = Bool(FALSE)
  /\ Named(forceEnabled, "foo")

\* The places in the list of the metadata files of the package.
ListedAt(pkg) == {i \in 1..Len(list) : basename(dirname(list[i])) = pkg}

EntriesFor(pkg) ==
  {i \in 1..Len(result.pairs) : result.pairs[i].k = Qualified(pkg)}

\* C10: a package found under more than one search path has exactly one
\* entry in the mapping returned, the descriptor of the search path
\* processed last.
C10_LastPathWins ==
  settled = "resolved" =>
    \A pkg \in PackageNames :
      Cardinality(FoundIn(pkg)) > 1 =>
        /\ Cardinality(EntriesFor(pkg)) = 1
        /\ GetProp(result, Qualified(pkg)) = metas[Max(ListedAt(pkg))].meta

\* C10, amended: a package found under more than one search path has no
\* entry when none of its descriptors passes the enable policy, and else
\* exactly one entry: of the descriptors that pass, the one whose search
\* path was listed last (the globs of the search paths answer in any order).
C10_LastPassingWins ==
  settled = "resolved" =>
    \A pkg \in PackageNames :
      Cardinality(FoundIn(pkg)) > 1 =>
        LET passing == {i \in ListedAt(pkg) :
                          Passes(readJsonSync(list[i]), pkg)}
        IN  IF passing = {}
              THEN EntriesFor(pkg) = {}
              ELSE /\ Cardinality(EntriesFor(pkg)) = 1
                   /\ GetProp(result, Qualified(pkg))
                        = metas[Max(passing)].meta

\* Package foo is under the base path and under an overlay, both descriptors
\* pass, and the base path was listed last: the entry is the base's.
C10_Witness ==
  /\ settled = "resolved"
  /\ Cardinality(FoundIn("foo")) > 1
  /\ \A p \in FoundIn("foo") : Passes(DescriptorAt(p, "foo"), "foo")
  /\ DescriptorAt(BasePath, "foo") # DescriptorAt(OverlayPath(1), "foo")
  /\ SourceOf(GetProp(result, Qualified("foo"))) = BasePath

----------------------------------------------------------------------------
(* C11: the keys of the package mapping *)

\* The metadata file a descriptor of the mapping was read from.
FileOf(entry) ==
  ROOT \o <<"/">> \o GetProp(entry, "_src").s \o <<"/", "metadata.json">>

\* The repositories under whose search paths the descriptor was found.
SearchedFor(entry) ==
  {j \in 1..Len(repos) :
     \E n \in 1..Len(getPackagePaths(cfg, repos[j], pkgDirs)) :
       getPackagePaths(cfg, repos[j], pkgDirs)[n] = SourceOf(entry)}

\* The metadata files of the file system that can be parsed.
ParsedFiles ==
  UNION {{joinPath(p, <<pkgFiles[p][n][1], "metadata.json">>) :
            n \in {m \in 1..Len(pkgFiles[p]) : pkgFiles[p][m][2] # Malformed}} :
         p \in DOMAIN pkgFiles}

\* C11: in the mapping getMetadata resolves with, every key k maps to a
\* descriptor whose path is k and whose repo is the repository that was
\* searched, k is that repository's name, a slash and the name of the
\* directory the metadata file lies in, and no two entries have the same
\* path; read without a repository hint, a descriptor gets the name of the
\* directory two levels above the file as its repository.
C11_KeyIsPath ==
  /\ metaSettled = "resolved" =>
        /\ \A i \in 1..Len(metaResult.pairs) :
              LET k == metaResult.pairs[i].k
                  entry == metaResult.pairs[i].v
              IN  /\ GetProp(entry, "path") = Str(k)
                  /\ \E j \in SearchedFor(entry) :
                        /\ GetProp(entry, "repo") = Str(<<repos[j]>>)
                        /\ k = <<repos[j], "/",
                                 basename(GetProp(entry, "_src").s)>>
        /\ \A i, j \in 1..Len(metaResult.pairs) :
              GetProp(metaResult.pairs[i].v, "path")
                = GetProp(metaResult.pairs[j].v, "path") => i = j
  /\ \A f \in ParsedFiles :
        LET entry == readMetadataFile(f, "", readJsonSync(f)).meta
        IN  /\ GetProp(entry, "repo") = Str(<<basename(dirname(dirname(f)))>>)
            /\ GetProp(entry, "path")
                 = Str(<<basename(dirname(dirname(f))), "/",
                         basename(dirname(f))>>)

\* The mapping holds packages of two repositories, one of them read from a
\* file that names a path and a repository of its own.
C11_Witness ==
  /\ metaSettled = "resolved"
  /\ \E i, j \in 1..Len(metaResult.pairs) :
        /\ GetProp(metaResult.pairs[i].v, "repo")
             # GetProp(metaResult.pairs[j].v, "repo")
        /\ GetProp(readJsonSync(FileOf(metaResult.pairs[i].v)), "path")
             \notin {Undefined, GetProp(metaResult.pairs[i].v, "path")}

----------------------------------------------------------------------------
(* C12: the conf fragments of the extensions *)

\* The packages in the order they were discovered, and the fragment each
\* contributes as an extension: Malformed for none.
Contribution(i) ==
  LET pkg == metaList.pairs[i].v
      conf == GetProp(pkg, "conf")
  IN  IF GetProp(pkg, "type") = Str(<<"extension">>) /\ conf.t = "array"
        THEN readConf(confPath(pkg, conf.items[1]))
        ELSE Malformed

\* The discovered extensions whose fragment gives the key path a leaf.
Contributors(path) ==
  {i \in 1..Len(metaList.pairs) :
     Contribution(i) # Malformed /\ path \in LeafPaths(Contribution(i))}

ContributedPaths ==
  UNION {IF Contribution(i) = Malformed THEN {}
         ELSE LeafPaths(Contribution(i)) \ {<<>>} :
         i \in 1..Len(metaList.pairs)}

\* The settings document being written or written.
ServerDocument == parse(server.data)

\* The fold is in the order of discovery where no fragment has to merge a
\* mapping over a scalar: a later extension's scalar or array replaces what
\* is there.
FoldedInOrder ==
  server.pc \in {"writing", "done"} =>
    \A path \in ContributedPaths :
      LET last == Contribution(Max(Contributors(path)))
      IN  Len(path) = 1 => Lookup(ServerDocument, path) = Lookup(last, path)

\* Packages that are no extensions contribute nothing: a key that neither
\* cfg.server nor an extension's fragment nor the builder sets is not in the
\* document.
OnlyExtensions ==
  server.pc \in {"writing", "done"} =>
    \A k \in KeysOf(ServerDocument.pairs) :
      \/ k \in KeysOf(GetProp(cfg, "server").pairs)
      \/ k \in {"overlays", "mimes", "broadway", "vfs"}
      \/ Contributors(<<k>>) # {}
      \/ \E path \in ContributedPaths : Head(path) = k

\* The discovered extensions whose fragment has the top-level key.
KeyContributors(k) ==
  {i \in 1..Len(metaList.pairs) :
     Contribution(i) # Malformed /\ k \in KeysOf(Contribution(i).pairs)}

\* C12: the conf fragments of the packages of type extension are folded into
\* the server settings in the order the packages were discovered: where the
\* fragments of two extensions give the same key different values, the
\* settings document written holds, at the key, what the extension
\* discovered later gives (each leaf of its value); packages of another
\* type contribute nothing.
C12_LaterExtensionWins ==
  /\ OnlyExtensions
  /\ server.pc \in {"writing", "done"} =>
       \A k \in {"k", "m"} :
         Cardinality(KeyContributors(k)) >= 2 =>
           LET later == GetProp(Contribution(Max(KeyContributors(k))), k)
           IN  \A path \in LeafPaths(later) :
                 Lookup(GetProp(ServerDocument, k), path) = Lookup(later, path)

----------------------------------------------------------------------------
(* C13: the server manifest *)

\* The descriptor as the discovery read it from the file of a manifest
\* entry.
Discovered(k, entry) ==
  readMetadataFile(FileOf(entry), k[1], readJsonSync(FileOf(entry))).meta

IsService(entry) == GetProp(entry, "type") = Str(<<"service">>)

\* C13: in the manifest buildServerManifest writes, no package has a build
\* or an enabled field, singular is true for every package of type service
\* and is not added to any other package, and every other field is as the
\* discovery read it.
C13_ManifestFields ==
  mpc = "written" =>
    \A i \in 1..Len(parse(manifest).pairs) :
      LET k == parse(manifest).pairs[i].k
          entry == parse(manifest).pairs[i].v
          before == Discovered(k, entry)
      IN  /\ "build" \notin KeysOf(entry.pairs)
          /\ "enabled" \notin KeysOf(entry.pairs)
          /\ IsService(entry) => GetProp(entry, "singular") = Bool(TRUE)
          /\ ~IsService(entry) =>
                /\ ("singular" \in KeysOf(entry.pairs))
                     = ("singular" \in KeysOf(before.pairs))
                /\ GetProp(entry, "singular") = GetProp(before, "singular")
          /\ KeysOf(entry.pairs) \ {"singular"}
               = KeysOf(before.pairs) \ {"build", "enabled", "singular"}
          /\ \A f \in KeysOf(entry.pairs) \ {"singular"} :
                GetProp(entry, f) = GetProp(before, f)

\* A manifest is written that holds a service package and a package of
\* another type whose descriptor had an enabled field.
C13_Witness ==
  /\ mpc = "written"
  /\ \E i, j \in 1..Len(parse(manifest).pairs) :
        /\ IsService(parse(manifest).pairs[i].v)
        /\ ~IsService(parse(manifest).pairs[j].v)
        /\ "enabled" \in KeysOf(Discovered(parse(manifest).pairs[j].k,
                                            parse(manifest).pairs[j].v).pairs)

----------------------------------------------------------------------------
(* C14: the preload list *)

\* The kind the file extension of a name gives.
KindByExtension(name) ==
  LET ext == IF Len(name) >= 2 /\ name[Len(name) - 1] = "."
               THEN name[Len(name)] ELSE ""
  IN  CASE ext = "js" -> Str(<<"javascript">>)
        [] ext = "css" -> Str(<<"stylesheet">>)
        [] ext = "html" -> Str(<<"html">>)
        [] OTHER -> Null

\* The preload entries and then the sources entries of a descriptor file.
DeclaredPreload(json) ==
  OrElse(GetProp(json, "preload"), Arr(<<>>, <<>>)).items
    \o OrElse(GetProp(json, "sources"), Arr(<<>>, <<>>)).items

\* The name has no dot but the one of its extension.
PlainName(name) == Cardinality({i \in 1..Len(name) : name[i] = "."}) <= 1

\* The list is the preload entries followed by the sources entries, the
\* structured ones untouched, each string made an entry with src and type,
\* and the type of a name with at most one dot other than .json is the kind
\* of its extension.
PreloadOrderKept ==
  (ppc = "done" /\ settled = "resolved") =>
    \A n \in 1..Len(result.pairs) :
      LET declared == DeclaredPreload(readJsonSync(FileOf(result.pairs[n].v)))
          made == GetProp(result.pairs[n].v, "preload").items
      IN  /\ Len(made) = Len(declared)
          /\ \A i \in 1..Len(declared) :
                IF declared[i].t = "string"
                  THEN /\ KeysOf(made[i].pairs) = {"src", "type"}
                       /\ GetProp(made[i], "src") = declared[i]
                       /\ (PlainName(declared[i].s)
                             /\ declared[i].s[Len(declared[i].s)] # "json")
                            => GetProp(made[i], "type")
                                 = KindByExtension(declared[i].s)
                  ELSE made[i] = declared[i]

\* C14: the preload list readMetadataFile makes is the descriptor's preload
\* entries followed by its sources entries; every string entry s becomes
\* {src: s, type: t} with t javascript, stylesheet or html as the file
\* extension of s is .js, .css or .html, and unset otherwise, whatever the
\* rest of the name holds; a structured entry is left as it is.
C14_KindByExtension ==
  (ppc = "done" /\ settled = "resolved") =>
    \A n \in 1..Len(result.pairs) :
      LET declared == DeclaredPreload(readJsonSync(FileOf(result.pairs[n].v)))
          made == GetProp(result.pairs[n].v, "preload").items
      IN  /\ Len(made) = Len(declared)
          /\ \A i \in 1..Len(declared) :
                made[i] = IF declared[i].t = "string"
                            THEN Obj(<<Pair("src", declared[i]),
                                       Pair("type",
                                            KindByExtension(declared[i].s))>>)
                            ELSE declared[i]

----------------------------------------------------------------------------
(* C15: the themes and the allow-lists *)

\* The allow-list of a category.
AllowList(n) == OrElse(GetProp(GetProp(cfg, "themes"), n), Arr(<<>>, <<>>))

\* The entry a theme directory of a category gives.
ThemeEntry(n, dir) == IF n = "fonts" THEN Str(<<dir[1]>>) ELSE dir[2]

\* Every entry of the category is the entry of a directory on the
\* allow-list, and no directory off the list has its entry in the result.
FromAllowList(n) ==
  /\ \A i \in 1..Len(themes[n].items) :
        \E j \in 1..Len(themeFiles[n]) :
          /\ Whitelisted(AllowList(n), themeFiles[n][j][1])
          /\ themes[n].items[i] = ThemeEntry(n, themeFiles[n][j])
  /\ \A j \in 1..Len(themeFiles[n]) :
        ~Whitelisted(AllowList(n), themeFiles[n][j][1]) =>
          \A i \in 1..Len(themes[n].items) :
            themes[n].items[i] # ThemeEntry(n, themeFiles[n][j])

\* The three categories read from metadata.json are filtered.
OthersFromAllowList ==
  themeSettled = "resolved" =>
    \A n \in CategorySet \ {"fonts"} : FromAllowList(n)

\* C15: for each of the categories fonts, icons, sounds and styles, every
\* entry the themes' getMetadata resolves with belongs to a theme directory
\* named in cfg.themes[category], and a directory that is not named there
\* never appears in the result.
C15_OnlyAllowListed ==
  themeSettled = "resolved" => \A n \in CategorySet : FromAllowList(n)

----------------------------------------------------------------------------
(* C16: the builders and their missing inputs *)

\* With the template missing the client builder never resolves and writes
\* nothing.
TemplateNeeded ==
  ~template => (client.pc # "done" /\ distSettings = <<>>)

\* With its destination directory missing the server builder never
\* resolves and writes nothing.
ServerDirNeeded ==
  outDirs["server"] = "missing" =>
    (server.pc # "done" /\ settingsJson = <<>>)

\* On a disk that refuses to write no builder resolves and nothing is
\* written.
WriteErrorRejects ==
  ~writable => /\ client.pc # "done" /\ distSettings = <<>>
               /\ server.pc # "done" /\ settingsJson = <<>>

----------------------------------------------------------------------------
(* C17: a missing option and the file system *)

\* The command line lacks an option its task requires.
MissingOption ==
  \/ task.name = "config:get" /\ task.opt["name"] = Undefined
  \/ /\ task.name = "config:set"
     /\ task.opt["value"] = Undefined /\ task.opt["import"] = Undefined
  \/ /\ task.name = "config:mount"
     /\ (task.opt["name"] = Undefined \/ task.opt["path"] = Undefined)
  \/ task.name = "build:package" /\ task.opt["name"] = Undefined
  \/ /\ task.name = "generate:package"
     /\ \/ task.opt["name"] = Undefined
        \/ Len(splitSlash(task.opt["name"].s, <<>>)) # 2

\* Nothing has been read, listed or written: the glob of src/conf has not
\* been started, no fragment has been read and the task has made no file
\* system operation of its own.
NoFileTouched ==
  /\ rpc = "idle" /\ mergeLog = <<>> /\ warnings = <<>>
  /\ io = <<>> /\ custom = <<>>

\* With a missing option the task's own function reads and writes nothing
\* and the task never resolves.
MissingOptionStops ==
  MissingOption =>
    /\ task.pc \in {"idle", "tree", "rejected"}
    /\ io = <<>> /\ custom = <<>>

\* With a missing option and a readable tree the rejection is that of the
\* task's own function, made after the tree was read.
MissingOptionAfterTree ==
  (MissingOption /\ task.pc = "rejected") => rpc \in {"resolved", "rejected"}

\* The task's own function has rejected the task: the tree was read.
RejectedByTask == task.pc = "rejected" /\ rpc # "rejected"

\* C17: a task whose command line lacks a required option is rejected, and
\* when it is rejected for that nothing has been read or written yet, the
\* configuration tree included.
C17_RejectedBeforeAnyIo ==
  MissingOption =>
    /\ task.pc \in {"idle", "tree", "rejected"}
    /\ RejectedByTask => NoFileTouched

----------------------------------------------------------------------------
(* C18: the batch of package builds *)

\* The builds were started in the order of the keys of the manifest.
StartedInKeyOrder ==
  /\ Len(started) > 0 => metaSettled = "resolved"
  /\ \A i \in 1..Len(started) :
       /\ i <= Len(keysOf(metaResult))
       /\ started[i] = keysOf(metaResult)[i]

\* One at a time: the package being built is the last one started.
OneAtATime ==
  building # None => Len(started) > 0 /\ building.s = started[Len(started)]

\* A build of the batch has failed.
BuildFailed ==
  \E i \in 1..Len(started) :
    /\ started[i] \in webpackFails
    /\ i = Len(started) => building = None

\* No build was started after one that fails.
NoneAfterFailure ==
  \A i \in 1..(Len(started) - 1) : started[i] \notin webpackFails

\* A failed build has rejected the batch, and a resolved batch has built
\* every package of the manifest.
NoPartialSuccess ==
  /\ BuildFailed => bpc = "rejected"
  /\ bpc = "resolved" =>
       /\ started = keysOf(metaResult)
       /\ \A i \in 1..Len(started) : started[i] \notin webpackFails

\* A build starts only while none is running and the batch is not settled.
StartsWhenFree ==
  [][started' # started =>
       /\ building = None /\ bpc = "each" /\ ~BuildFailed
       /\ started' = Append(started, Head(buildQueue))]_vars

\* C18: the packages are built one at a time in the order of the keys of
\* the manifest; once a build has failed no later build is started, the
\* batch is rejected and it never resolves.
C18_FirstFailureAborts ==
  /\ [](StartedInKeyOrder /\ OneAtATime /\ NoneAfterFailure /\ NoPartialSuccess)
  /\ StartsWhenFree
  /\ [](BuildFailed => [](bpc = "rejected"))
  /\ (building # None /\ building.s \in webpackFails) ~> (bpc = "rejected")

\* The second of three packages has failed and the third was never started.
C18_Witness ==
  /\ bpc = "rejected" /\ BuildFailed
  /\ Len(started) = 2 /\ Len(keysOf(metaResult)) = 3
  /\ keysOf(metaResult)[3] \in webpackFails

----------------------------------------------------------------------------
(* C19: a write failure of the configuration file *)

ConfigWriters == {"config:set", "config:add", "config:remove", "config:mount"}

\* setConfigPath has tried to write the configuration file.
WriteTried == \E i \in 1..Len(io) : io[i].op = "write"

\* What was written is what the task resolves with, when the disk takes
\* the write.
StoredWhenWritten ==
  (task.name \in ConfigWriters /\ task.pc = "resolved" /\ writable) =>
    /\ Len(custom) = 1
    /\ task.name # "config:mount" => custom[1].value = task.value

\* A disk that refuses the write stores nothing.
NothingStoredOnFailure ==
  (task.name \in ConfigWriters /\ ~writable) => custom = <<>>

\* C19: when the write of the configuration file fails in config:set,
\* config:add, config:remove or config:mount, the task is rejected and does
\* not resolve.
C19_WriteFailureRejects ==
  (task.name \in ConfigWriters /\ ~writable /\ WriteTried) =>
    task.pc = "rejected"

----------------------------------------------------------------------------
(* C20: build:config settles *)

\* A sub-operation of the client builder has failed: a glob of the themes
\* that were asked for, a theme's metadata file, or the package metadata.
SubOperationFailed ==
  \/ tpc # "idle" /\ globFails # {}
  \/ themeSettled = "rejected"
  \/ metaSettled = "rejected"

\* A failure that is not the fonts glob's alone rejects the builder.
OtherFailuresReject ==
  (SubOperationFailed /\ (themeSettled = "rejected" \/ metaSettled = "rejected"))
    ~> (client.pc = "rejected")

\* C20: when a sub-operation of buildClientConfiguration fails, the reading
\* of the package metadata or one of the four theme reads, the fonts glob
\* included, the builder is rejected in the end; it never stays pending for
\* ever after the failure.
C20_FailureRejects == SubOperationFailed ~> (client.pc = "rejected")

----------------------------------------------------------------------------
(* C9: the builders *)

\* C9: the tree readConfigurationTree returned is never changed afterwards,
\* at any depth, by a builder, with or without --standalone, and a builder
\* run twice on the tree writes the same text both times.
C9_SnapshotKept ==
  /\ cfg = returned
  /\ \A i \in 1..Len(distSettings) : distSettings[i] = distSettings[1]
  /\ \A i \in 1..Len(settingsJson) : settingsJson[i] = settingsJson[1]

----------------------------------------------------------------------------
(* C1 *)

\* C1: R = mergeObject(copy(A), B) has B's value at every key path where B
\* defines a leaf and A's value at every key path on which B is silent,
\* whatever A holds at the path.
C1_MergeLeaves ==
  merged # None =>
    /\ ~merged.threw
    /\ \A p \in LeafPaths(from) : Lookup(merged.val, p) = Lookup(from, p)
    /\ \A p \in LeafPaths(into) :
         Silent(from, p) => Lookup(merged.val, p) = Lookup(into, p)

----------------------------------------------------------------------------
(* C21: --no-minimize and the builds that run webpack *)

\* The command line has --no-minimize.
NoMinimize == GetProp(argv, "minimize") = Bool(FALSE)

\* Every webpack process started so far that has parsed its options has
\* minimize off.
MinimizeOff ==
  \A i \in 1..Len(options) : GetProp(options[i], "minimize") = Bool(FALSE)

\* build:core hands --no-minimize on to webpack, with and without --debug.
CoreHonoursNoMinimize ==
  (task.name = "build:core" /\ NoMinimize) => MinimizeOff

\* The tasks run by newTask give webpack the wrapper's debug and nothing
\* else of the command line: minimize is on exactly when --debug is not
\* given, whatever --no-minimize says.
WrappedFollowsDebug ==
  task.name \in Bundling \ {"build:core"} =>
    \A i \in 1..Len(options) :
      GetProp(options[i], "minimize")
        = Bool(GetProp(argv, "debug") # Bool(TRUE))

\* C21: with --no-minimize on the command line of build:core, build:themes,
\* build:package or build:packages, parseOptions yields minimize = false in
\* every webpack process the task starts, also without --debug.
C21_NoMinimizeHonoured ==
  (task.name \in Bundling /\ NoMinimize) => MinimizeOff

----------------------------------------------------------------------------
(* C22: the tokens nothing resolves *)

\* The words of the tree's text that are not reserved, for which no
\* environment variable is used and whose name the tree lookup does not
\* find.
Unresolvable ==
  {w \in SeqRange(replacedWords(wordsOf(preparedText(tree, Undefined)))) :
     /\ ~(IsUpper(NameOf(w)) /\ Truthy(EnvGet(env, NameOf(w))))
     /\ getConfiguration(LookupTree(tree), NameOf(w)) = Undefined}

\* The strings of the tree that are one such word and nothing else.
UnresolvablePaths ==
  {p \in StringPaths(tree) : Lookup(tree, p).s \in Unresolvable}

\* String(undefined)
UndefinedText == <<"u", "n", "d", "e", "f", "i", "n", "e", "d">>

\* A word nothing resolves is replaced by the text of the value the lookup
\* gave, which is "undefined".
UnresolvableIsUndefined ==
  once # None =>
    \A p \in UnresolvablePaths : Lookup(once, p) = Str(UndefinedText)

\* C22: in the tree resolveConfigurationVariables returns, a token that is
\* not reserved, for which no environment variable is used and whose name
\* the tree lookup does not find has been replaced by the empty string.
C22_UnresolvableEmpty ==
  once # None => \A p \in UnresolvablePaths : Lookup(once, p) = Str(<<>>)

----------------------------------------------------------------------------
(* C23: a replacement that holds a token *)

\* The strings of the tree that are the i-th replaced word and nothing
\* else, when the text the word is replaced by holds a token.
NestedPaths(i) ==
  IF TokensIn(replaced[i].by) = {} THEN {}
  ELSE {p \in StringPaths(tree) : Lookup(tree, p).s = replaced[i].word}

\* The pattern of a word replaced after the i-th matches in the text the
\* i-th was replaced by.
MatchedLater(i) ==
  \E j \in (i + 1)..Len(replaced) :
    replaceFrom(replaced[i].by, 1, replaced[j].word, <<>>) # replaced[i].by

\* The token inside a replacement is still there after the pass when no
\* word that comes later in the text's list of words matches it.
InnerKeptUnlessLater ==
  once # None =>
    \A i \in 1..Len(replaced) : \A p \in NestedPaths(i) :
      ~MatchedLater(i) => Lookup(once, p) = Str(replaced[i].by)

\* The token inside a replacement is replaced in the same pass when it
\* first occurs in the text after the token it is the value of.
InnerLaterResolved ==
  once # None =>
    \A i \in 1..Len(replaced) : \A p \in NestedPaths(i) :
      \A j \in (i + 1)..Len(replaced) :
        replaced[i].by = replaced[j].word
          => Lookup(once, p) = Str(replaced[j].by)

\* C23: when the value a token is replaced by holds another token, that
\* inner token is still unresolved in the tree one pass returns, whichever
\* of the two tokens occurs first in the serialized tree.
C23_NotRecursive ==
  once # None =>
    \A i \in 1..Len(replaced) : \A p \in NestedPaths(i) :
      Lookup(once, p) = Str(replaced[i].by)

----------------------------------------------------------------------------
(* C24: the placeholders of an overlay's fragments *)

\* The merged fragments of the overlays, in the order they were merged.
OverlayMerges == SelectSeq(mergeLog, LAMBDA m : m[1] # "base")

\* The overlay whose fragment was the last one merged that holds the key.
LastWith(key) ==
  LET holds == SelectSeq(OverlayMerges,
                         LAMBDA m : key \in KeysOf(confFiles[m[1]][m[2]].pairs))
  IN  IF holds = <<>> THEN "base" ELSE holds[Len(holds)][1]

\* %OVERLAY% in a fragment of an overlay has become the root of that
\* overlay: under the overlay's own key, and under the shared key the root
\* of the overlay merged last.
OverlayScoped ==
  rpc = "resolved" =>
    /\ \A d \in {"o1", "o2"} :
         LastWith(d) # "base" => GetProp(cfg, d) = Str(overlayRoot(d))
    /\ LastWith("p") # "base" =>
         GetProp(cfg, "p") = Str(overlayRoot(LastWith("p")) \o <<"/", "y">>)

\* A key the base tree defines and no merged fragment of an overlay does.
OnlyInBase(key) ==
  /\ key \in KeysOf(confFiles["base"][1].pairs)
  /\ LastWith(key) = "base"

\* The token of an overlay's fragment for a key only the base tree defines
\* gets that key's value.
BaseKeyResolved ==
  (rpc = "resolved" /\ LastWith("q") # "base" /\ OnlyInBase("k"))
    => GetProp(cfg, "q") = GetProp(cfg, "k")

\* The pass on an overlay's fragment replaces every token of the fragment,
\* looking its name up in the fragment alone: a token for a key only the
\* base tree defines has become the text "undefined" before the merge.
BaseKeyUndefined ==
  (rpc = "resolved" /\ LastWith("q") # "base" /\ OnlyInBase("k"))
    => GetProp(cfg, "q") = Str(UndefinedText)

\* C24: every %OVERLAY% of a fragment of an overlay is replaced by the root
\* of that overlay and of no other, and a token of an overlay's fragment
\* that names a key only the base tree defines has that key's value in the
\* tree readConfigurationTree resolves with.
C24_OverlayScoped == OverlayScoped /\ BaseKeyResolved

----------------------------------------------------------------------------
(* C25: mergeObject and the keys of `from` *)

\* The keys of `from` that hold a plain mapping, and those that hold a
\* scalar, an array or null.
MappingKeys == {k \in KeysOf(from.pairs) : GetProp(from, k).t = "object"}
LeafKeys == KeysOf(from.pairs) \ MappingKeys

\* v is a plain mapping that holds every entry of the mapping m.
HoldsAll(v, m) ==
  /\ v.t = "object"
  /\ \A i \in 1..Len(m.pairs) : GetProp(v, m.pairs[i].k) = m.pairs[i].v

\* A scalar, an array or null of `from` is what `into` holds afterwards.
LeafStored ==
  merged # None =>
    /\ ~merged.threw
    /\ \A k \in LeafKeys : GetProp(merged.val, k) = GetProp(from, k)

\* A mapping of `from` is merged into the mapping `into` holds at the key,
\* and stored when `into` has no value or null there and the mapping is
\* not empty.
MappingIntoMapping ==
  merged # None =>
    \A k \in MappingKeys :
      (\/ GetProp(into, k).t = "object"
       \/ /\ IsNullish(GetProp(into, k))
          /\ GetProp(from, k).pairs # <<>>)
        => HoldsAll(GetProp(merged.val, k), GetProp(from, k))

\* Where `into` has no mapping at the key and the mapping of `from` is
\* empty, or `into` has a scalar or an array there, `into` holds what it
\* held before, with the array's elements unchanged.
MappingLost ==
  merged # None =>
    \A k \in MappingKeys :
      (\/ GetProp(into, k).t \notin {"object", "undefined", "null"}
       \/ /\ IsNullish(GetProp(into, k))
          /\ GetProp(from, k).pairs = <<>>)
        => /\ GetProp(merged.val, k).t = GetProp(into, k).t
           /\ GetProp(merged.val, k).t # "object"

\* C25: after mergeObject(into, from), for every key at which `from` holds a
\* plain mapping M, the empty one included, `into` holds a plain mapping
\* with every entry of M, also when `into` had no value, a scalar, a
\* string, an array or null there; for every key at which `from` holds a
\* scalar, an array or null, `into` holds exactly that value; and what is
\* returned is `into`.
C25_MappingKeys ==
  merged # None =>
    /\ ~merged.threw
    /\ \A k \in MappingKeys :
         HoldsAll(GetProp(merged.val, k), GetProp(from, k))
    /\ \A k \in LeafKeys : GetProp(merged.val, k) = GetProp(from, k)

----------------------------------------------------------------------------
(* C26: the order in which the globs and the repositories answer *)

\* The globs of n search paths answering in the order of the paths.
InOrder(n) == [i \in 1..n |-> i]

RECURSIVE discoveredInOrder(_, _)
\* The list getMetadata has when the repositories answer one after the
\* other in the order of `repos` and the globs of each in the order of its
\* search paths.
discoveredInOrder(acc, j) ==
  IF j > Len(repos) THEN acc
  ELSE discoveredInOrder(
         assign(acc,
                getRepositoryPackages(
                  cfg, repos[j],
                  InOrder(Len(getPackagePaths(cfg, repos[j], pkgDirs)))).meta,
                1),
         j + 1)

\* The mapping getMetadata resolves with in that order.
InOrderResult == filtered(filter, discoveredInOrder(Obj(<<>>), 1))

\* A package directory of the same name lies under two search paths of one
\* of the repositories.
Duplicated ==
  \E j \in 1..Len(repos) :
    LET found == listFiles(getPackagePaths(cfg, repos[j], pkgDirs),
                           InOrder(Len(getPackagePaths(cfg, repos[j], pkgDirs))),
                           1)
    IN  \E a, b \in 1..Len(found) :
          a # b /\ basename(dirname(found[a])) = basename(dirname(found[b]))

\* Without a filter the keys of the mapping do not depend on the order of
\* the answers: every package that has an enabled descriptor has an entry.
SameKeys ==
  (metaSettled = "resolved" /\ mpc = "done" /\ filter = "all") =>
    KeysOf(metaResult.pairs) = KeysOf(InOrderResult.pairs)

\* Without a package under two search paths the descriptors do not depend
\* on the order of the answers either.
SameWithoutDuplicates ==
  (metaSettled = "resolved" /\ mpc = "done" /\ ~Duplicated) =>
    \A k \in KeysOf(metaResult.pairs) :
      GetProp(metaResult, k) = GetProp(InOrderResult, k)

\* C26: the mapping getMetadata resolves with, its keys and the descriptor
\* under each key, a package found under two search paths included, is the
\* one it resolves with when the globs and the repositories answer in the
\* order they were started, in whatever order they do answer.
C26_Deterministic ==
  (metaSettled = "resolved" /\ mpc = "done") =>
    /\ KeysOf(metaResult.pairs) = KeysOf(InOrderResult.pairs)
    /\ \A k \in KeysOf(metaResult.pairs) :
         GetProp(metaResult, k) = GetProp(InOrderResult, k)

----------------------------------------------------------------------------
(* C27: the lookup of one package and the discovery *)

\* The search paths of the package's repository under which the package
\* has a metadata file, in the order of the search paths.
HoldingPaths(name) ==
  SelectSeq(getPackagePaths(cfg, splitSlash(name, <<>>)[1][1], pkgDirs),
            LAMBDA dir : metadataExists(joinPath(dir,
                                                 <<splitSlash(name, <<>>)[2][1],
                                                   "metadata.json">>)))

\* The lookup reads the file of the first search path that has one: the
\* base path before any overlay.
LookupTakesFirst ==
  pkgMeta # None =>
    /\ ~pkgMeta.rejected
    /\ SourceOf(pkgMeta.meta) = HoldingPaths(pkgMeta.name)[1]

\* For a package under one search path the lookup returns the descriptor
\* the discovery retains.
SinglePathAgrees ==
  (pkgMeta # None /\ Len(HoldingPaths(pkgMeta.name)) = 1) =>
    pkgMeta.meta = GetProp(metaResult, pkgMeta.name)

\* C27: for every name of the mapping getMetadata resolves with,
\* getPackageMetadata returns the descriptor read from the search path the
\* entry of the mapping was read from, also for a package that lies under
\* the base path and under an overlay.
C27_LookupAgrees ==
  pkgMeta # None =>
    /\ ~pkgMeta.rejected
    /\ SourceOf(pkgMeta.meta) = SourceOf(GetProp(metaResult, pkgMeta.name))

----------------------------------------------------------------------------
(* C28: the sub-tasks of build *)

\* The sub-tasks were started in the order config, manifest, themes, core,
\* packages.
StartedInListOrder ==
  \A i \in 1..Len(ran) :
    ran[i] = <<"build:config", "build:manifest", "build:themes",
               "build:core", "build:packages">>[i]

\* One at a time: the running sub-task is the one started last.
OneSubTask ==
  running # None => Len(ran) > 0 /\ running.s[1] = ran[Len(ran)]

\* A sub-task has failed.
SubTaskFailed ==
  \E i \in 1..Len(ran) :
    /\ ran[i] \in failing
    /\ i = Len(ran) => running = None

\* Every sub-task started before the last one has completed with success.
EarlierSucceeded == \A i \in 1..(Len(ran) - 1) : ran[i] \notin failing

\* A failed sub-task has rejected build, and a resolved build ran all five
\* and none of them failed.
BuildSettles ==
  /\ SubTaskFailed => seqpc = "rejected"
  /\ seqpc = "resolved" =>
       /\ Len(ran) = 5
       /\ \A i \in 1..Len(ran) : ran[i] \notin failing

\* A sub-task is started only while none is running, none has failed and
\* build is not settled.
StartsAfterSuccess ==
  [][ran' # ran =>
       /\ running = None /\ seqpc = "each" /\ ~SubTaskFailed
       /\ Len(ran') = Len(ran) + 1]_vars

\* C28: build starts its sub-tasks in the order build:config,
\* build:manifest, build:themes, build:core, build:packages, each only after
\* the one before it has completed with success and never two at a time;
\* once a sub-task has failed no later one is started and build is
\* rejected for good.
C28_InOrderUntilFailure ==
  /\ [](StartedInListOrder /\ OneSubTask /\ EarlierSucceeded /\ BuildSettles)
  /\ StartsAfterSuccess
  /\ [](SubTaskFailed => [](seqpc = "rejected" /\ running = None))

\* build:themes has failed after the two sub-tasks before it succeeded,
\* and build:core, which would fail too, was never started.
C28_Witness ==
  /\ seqpc = "rejected" /\ SubTaskFailed
  /\ Len(ran) = 3 /\ ran[3] = "build:themes"
  /\ "build:core" \in failing

----------------------------------------------------------------------------
(* C29: generate:package and what the destination holds *)

\* The task is generate:package.
Generating == task.name = "generate:package"

\* The parts of --name between its slashes.
NameParts ==
  splitSlash(OrElse(task.opt["name"], Str(<<>>)).s, <<>>)

\* --name is of the form REPO/NAME: a repository and a name, one slash
\* between them.
RepoSlashName ==
  Len(NameParts) = 2 /\ NameParts[1] # <<>> /\ NameParts[2] # <<>>

\* What generatePackage asks of --name: it is not empty and has one slash.
OneSlash == Truthy(OrElse(task.opt["name"], Str(<<>>))) /\ Len(NameParts) = 2

\* The template directory of the requested type exists.
TemplateExists ==
  OrElse(task.opt["type"], Str(<<"application">>)).s \in disk.types

\* The template has been copied, or the copy was tried and failed.
CopyTried == \E i \in 1..Len(io) : io[i].op = "copy"

\* Something under the destination has been created or written.
DestinationTouched == \E i \in 1..Len(io) : io[i].op \in {"copy", "write"}

\* The destination directory was there before the task ran: the task makes
\* it only by copying the template.
ExistedBefore == disk.dest /\ ~CopyTried

\* A destination directory that was there before the task ran is left
\* alone, in every step.
NeverOverwrites ==
  [][(Generating /\ ExistedBefore) =>
       /\ disk' = disk
       /\ \A i \in (Len(io) + 1)..Len(io') : io'[i].op \notin {"copy", "write"}
       /\ task'.pc # "glob"]_vars

\* What the code does: with a --name that is empty or has no or several
\* slashes, with a destination that exists or without the template, the
\* task is rejected and nothing under the destination is touched; the
\* template is copied only when none of the three is the case, and
\* EXAMPLE is replaced only after the copy.
ChecksBeforeCopy ==
  Generating =>
    /\ (~OneSlash \/ ExistedBefore \/ ~TemplateExists) =>
         /\ task.pc \in {"idle", "tree", "rejected"}
         /\ ~DestinationTouched
    /\ DestinationTouched => (OneSlash /\ TemplateExists /\ CopyTried)
    /\ \A i \in 1..Len(io) :
         io[i].op = "write" => \E j \in 1..(i - 1) : io[j].op = "copy"

\* A --name with one slash and nothing before it: the package is generated.
EmptyRepoGenerated ==
  /\ Generating /\ OneSlash /\ ~RepoSlashName
  /\ task.pc = "resolved" /\ DestinationTouched

\* C29: generate:package is rejected when --name is not of the form
\* REPO/NAME, when the destination directory exists or when the template
\* directory of the type is missing, and then nothing under the
\* destination is created or modified; the template is copied and EXAMPLE
\* replaced only when all three checks pass.
C29_RejectsBeforeCopy ==
  Generating =>
    /\ (~RepoSlashName \/ ExistedBefore \/ ~TemplateExists) =>
         /\ task.pc \in {"idle", "tree", "rejected"}
         /\ ~DestinationTouched
    /\ DestinationTouched => (RepoSlashName /\ TemplateExists)

----------------------------------------------------------------------------
(* C30: the two builders of build:config on one tree *)

\* What buildClientConfiguration writes when it runs alone on the tree as
\* it was read; None when it throws.
clientAlone ==
  TheOne({
    IF h1.threw THEN None
    ELSE TheOne({
      IF h2.threw THEN None
      ELSE TheOne({
        stringify(settingsValue(h3.settings, GetProp(h3.cfg, "client"))) :
        h3 \in {clientPackages(
                  h2, classNames,
                  preloadsOf(settingsProp(h1.settings,
                                          GetProp(returned, "client"),
                                          "Preloads")))}}) :
      h2 \in {clientThemes(h1, themes)}}) :
    h1 \in {clientStart(returned, standalone)}})

\* What buildServerConfiguration writes when it runs alone on the tree as
\* it was read; None when it throws.
serverAlone ==
  TheOne({
    IF h.threw THEN None
    ELSE stringify(settingsValue(h.settings, GetProp(h.cfg, "server"))) :
    h \in {serverPackages(Heap(shallowCopy(GetProp(returned, "server")),
                               returned),
                          extensionConf)}})

\* The client builder changes nothing but the client section of the tree,
\* the server builder nothing but the server section.
SectionsApart ==
  [][/\ (\E k \in {"server", "mime", "overlays"} :
           GetProp(cfg', k) # GetProp(cfg, k)) => server' # server
     /\ GetProp(cfg', "client") # GetProp(cfg, "client") => client' # client]_vars

\* The server builder has written while the client builder is between two
\* of its callbacks, and each has changed its section of the tree.
WrittenInBetween ==
  /\ client.pc = "packages" /\ distSettings = <<>> /\ Len(settingsJson) = 1
  /\ GetProp(cfg, "client") # GetProp(returned, "client")
  /\ GetProp(cfg, "server") # GetProp(returned, "server")

====
